---- MODULE Spec2Model ----
(***************************************************************************)
(* Model of the logistic-request backend (vvsten/Rip_logisticBackend):     *)
(* the repository layer (internal/app/repository/repository.go) and the    *)
(* HTTP handlers that drive it (internal/app/service/auth_service.go).     *)
(*                                                                         *)
(* The database is the variable db: the logistic_requests table, the       *)
(* logistic_request_services table and the id sequence of                  *)
(* logistic_requests.  Spec runs whole handlers one after the other;       *)
(* SpecConc interleaves handlers of several HTTP requests at the           *)
(* granularity of their database statements.                               *)
(***************************************************************************)
EXTENDS Integers, Sequences, FiniteSets, TLC

(***************************************************************************)
(* Bounds of the model.                                                    *)
(***************************************************************************)
MaxReq == 2      \* ids the logistic_requests sequence may hand out
MaxItems == 2    \* longest item list sent to CreateCargoLogisticRequest
MaxQty == 2      \* largest quantity of one line item
NumProcs == 3    \* HTTP requests in flight at once (SpecConc, SpecComplete)

VARIABLES
    db,      \* the database: requests, line items, id sequence
    resp,    \* the response of the last handler that returned
    pc,      \* SpecConc: position of every in-flight handler
    local,   \* SpecConc: the local variables of every in-flight handler
    browser  \* the frontend: localStorage and the auth slice of the store

vars == <<db, resp, pc, local, browser>>

\* localStorage.getItem of a key that is not set, a null field of the store
Null == "null"

\* authSlice initialState over an empty localStorage
initialState ==
    [isAuthenticated |-> FALSE, user |-> Null, accessToken |-> Null,
     refreshToken |-> Null, expiresAt |-> Null, isLoading |-> FALSE, error |-> Null]

NoBrowser ==
    [localStorage |-> [access_token |-> Null, refresh_token |-> Null,
                       expires_at |-> Null, user |-> Null],
     auth |-> initialState]

(***************************************************************************)
(* ds: statuses, users, the transport_services table.                      *)
(***************************************************************************)
StatusDraft == "draft"
StatusFormed == "formed"
StatusCompleted == "completed"
StatusRejected == "rejected"

\* the statuses UpdateLogisticRequestStatus accepts
validStatuses == {"pending", "processing", "shipped", "delivered", "cancelled"}

\* ds.GetCreatorID(): the user that owns guest drafts
SystemCreator == 1

Buyers == {1, 2}
Moderators == {3, 4}
NoModerator == 0

\* rows of transport_services; id 9 is a service that does not exist
TransportServices ==
    (1 :> [Price |-> 1000, DeliveryDays |-> 3]) @@
    (2 :> [Price |-> 500, DeliveryDays |-> 1])

ServiceIDs == DOMAIN TransportServices
MissingService == 9

\* Repository.GetTransportService: found or "услуга не найдена"
GetTransportService(id) ==
    IF id \in ServiceIDs
    THEN [err |-> "", service |-> TransportServices[id]]
    ELSE [err |-> "service not found", service |-> [Price |-> 0, DeliveryDays |-> 0]]

(***************************************************************************)
(* calculator.CalculateDelivery: the quote of one service for one cargo.   *)
(***************************************************************************)
Distance(fromCity, toCity) ==
    IF fromCity = toCity THEN 0
    ELSE IF {fromCity, toCity} = {"msk", "spb"} THEN 635
    ELSE 500

CalculateDelivery(svc, fromCity, toCity, length, width, height, weight) ==
    IF length <= 0 \/ width <= 0 \/ height <= 0 \/ weight <= 0
    THEN [IsValid |-> FALSE, ErrorMessage |-> "invalid cargo", TotalCost |-> 0, DeliveryDays |-> 0]
    ELSE [IsValid |-> TRUE, ErrorMessage |-> "",
          TotalCost |-> svc.Price + 50 * (length * width * height) + 2 * weight
                        + Distance(fromCity, toCity),
          DeliveryDays |-> svc.DeliveryDays + (weight \div 2) + (Distance(fromCity, toCity) \div 500)]

(***************************************************************************)
(* The tables.                                                             *)
(***************************************************************************)
\* a freshly inserted logistic_requests row: every column at its zero value
ZeroRequest ==
    [SessionID |-> "", IsDraft |-> FALSE, FromCity |-> "", ToCity |-> "",
     Weight |-> 0, Length |-> 0, Width |-> 0, Height |-> 0,
     TotalCost |-> 0, TotalDays |-> 0, Status |-> "",
     CreatorID |-> 0, ModeratorID |-> NoModerator,
     FormedAt |-> FALSE, CompletedAt |-> FALSE, DeletedAt |-> FALSE]

EmptyDB == [requests |-> <<>>, services |-> {}, nextID |-> 1]

RequestIDs(d) == DOMAIN d.requests

\* tx.Create(&order): INSERT takes the next id of the sequence
CreateRequest(d, order) ==
    [d EXCEPT !.requests = d.requests @@ (d.nextID :> order),
              !.nextID = d.nextID + 1]

\* db.Save(&order): UPDATE of every column of the row with this primary key
SaveRequest(d, id, order) ==
    [d EXCEPT !.requests = [i \in DOMAIN d.requests |-> IF i = id THEN order ELSE d.requests[i]]]

\* rows of logistic_request_services of one request (Preload("Services"))
ServicesOf(d, id) == {s \in d.services : s.LogisticRequestID = id}

\* rows of one (request, service) pair
RowsOf(d, id, serviceID) ==
    {s \in d.services : s.LogisticRequestID = id /\ s.TransportServiceID = serviceID}

\* db.Create(&orderService): INSERT; the unique index on
\* (logistic_request_id, transport_service_id) rejects a second row
CreateService(d, id, serviceID, quantity) ==
    IF RowsOf(d, id, serviceID) # {}
    THEN [err |-> "duplicate key", db |-> d]
    ELSE [err |-> "",
          db |-> [d EXCEPT !.services = d.services \cup
                     {[LogisticRequestID |-> id, TransportServiceID |-> serviceID,
                       Quantity |-> quantity]}]]

\* db.Save(&existing): UPDATE of the row read before
SaveService(d, old, quantity) ==
    [d EXCEPT !.services = (d.services \ {old}) \cup {[old EXCEPT !.Quantity = quantity]}]

\* db.Delete(&orderService)
DeleteService(d, old) == [d EXCEPT !.services = d.services \ {old}]

(***************************************************************************)
(* Repository: CreateCargoLogisticRequest.                                 *)
(***************************************************************************)
ZeroAgg == [maxDays |-> 0, totalCost |-> 0, totalWeight |-> 0,
            totalLength |-> 0, totalWidth |-> 0, totalHeight |-> 0]

\* the loop with "maxDays = res.DeliveryDays" in place of the comparison
RECURSIVE createItems_LastDays(_, _, _, _, _)
createItems_LastDays(d, orderID, items, i, agg) ==
    IF i > Len(items) THEN [err |-> "", db |-> d, agg |-> agg]
    ELSE
        LET it == items[i]
            svc == GetTransportService(it.TransportServiceID)
            res == CalculateDelivery(svc.service, it.FromCity, it.ToCity,
                                     it.Length, it.Width, it.Height, it.Weight)
            ins == CreateService(d, orderID, it.TransportServiceID, 1)
        IN  IF svc.err # "" THEN [err |-> "service not found", db |-> d, agg |-> agg]
            ELSE IF ~res.IsValid THEN [err |-> res.ErrorMessage, db |-> d, agg |-> agg]
            ELSE IF ins.err # "" THEN [err |-> ins.err, db |-> d, agg |-> agg]
            ELSE createItems_LastDays(ins.db, orderID, items, i + 1,
                    [maxDays |-> res.DeliveryDays,
                     totalCost |-> agg.totalCost + res.TotalCost,
                     totalWeight |-> agg.totalWeight + it.Weight,
                     totalLength |-> agg.totalLength + it.Length,
                     totalWidth |-> agg.totalWidth + it.Width,
                     totalHeight |-> agg.totalHeight + it.Height])

\* the body of "for _, it := range items" from item i on, inside the
\* transaction: the first failing item ends the loop with its error
RECURSIVE createItems(_, _, _, _, _)
createItems(d, orderID, items, i, agg) ==
    IF i > Len(items) THEN [err |-> "", db |-> d, agg |-> agg]
    ELSE
        LET it == items[i]
            svc == GetTransportService(it.TransportServiceID)
            res == CalculateDelivery(svc.service, it.FromCity, it.ToCity,
                                     it.Length, it.Width, it.Height, it.Weight)
            ins == CreateService(d, orderID, it.TransportServiceID, 1)
        IN  IF svc.err # "" THEN [err |-> "service not found", db |-> d, agg |-> agg]
            ELSE IF ~res.IsValid THEN [err |-> res.ErrorMessage, db |-> d, agg |-> agg]
            ELSE IF ins.err # "" THEN [err |-> ins.err, db |-> d, agg |-> agg]
            ELSE createItems(ins.db, orderID, items, i + 1,
                    [maxDays |-> IF res.DeliveryDays > agg.maxDays
                                 THEN res.DeliveryDays ELSE agg.maxDays,
                     totalCost |-> agg.totalCost + res.TotalCost,
                     totalWeight |-> agg.totalWeight + it.Weight,
                     totalLength |-> agg.totalLength + it.Length,
                     totalWidth |-> agg.totalWidth + it.Width,
                     totalHeight |-> agg.totalHeight + it.Height])

\* a failed creation without a transaction: what was inserted stays
Rollback_NoTransaction(before, after) == after

\* what the transaction leaves behind when its function returns an error:
\* the inserted rows are rolled back, the sequence keeps the id it gave out
Rollback(before, after) == [before EXCEPT !.nextID = after.nextID]

createCargoLogisticRequestTx(d, items, creatorID) ==
    LET first == items[1]
        order == [ZeroRequest EXCEPT !.SessionID = "guest", !.IsDraft = TRUE,
                                     !.FromCity = first.FromCity, !.ToCity = first.ToCity,
                                     !.Status = StatusDraft, !.CreatorID = creatorID]
        orderID == d.nextID
        d1 == CreateRequest(d, order)
        loop == createItems(d1, orderID, items, 1, ZeroAgg)
        final == [order EXCEPT !.TotalDays = loop.agg.maxDays,
                               !.TotalCost = loop.agg.totalCost,
                               !.Weight = loop.agg.totalWeight,
                               !.Length = loop.agg.totalLength,
                               !.Width = loop.agg.totalWidth,
                               !.Height = loop.agg.totalHeight]
    IN  IF loop.err # ""
        THEN [err |-> loop.err, id |-> 0, db |-> Rollback(d, loop.db)]
        ELSE [err |-> "", id |-> orderID, db |-> SaveRequest(loop.db, orderID, final)]

\* a creation that hands back the draft its creator already has
RepoCreateCargoLogisticRequest_ReuseDraft(d, items, creatorID) ==
    LET drafts == {i \in RequestIDs(d) : d.requests[i].CreatorID = creatorID
                                         /\ d.requests[i].Status = StatusDraft}
    IN  IF Len(items) = 0
        THEN [err |-> "no items provided", id |-> 0, db |-> d]
        ELSE IF drafts # {}
        THEN [err |-> "", id |-> CHOOSE i \in drafts : \A j \in drafts : i <= j, db |-> d]
        ELSE createCargoLogisticRequestTx(d, items, creatorID)

RepoCreateCargoLogisticRequest(d, items, creatorID) ==
    IF Len(items) = 0
    THEN [err |-> "no items provided", id |-> 0, db |-> d]
    ELSE createCargoLogisticRequestTx(d, items, creatorID)

(***************************************************************************)
(* Repository: reading a request, Form, Complete, Update.                  *)
(***************************************************************************)
\* db.Preload("Services").Where("id = ?", id).First(&order): the row and
\* its line items as they are at the time of the SELECT
LoadRequest(d, id) ==
    IF id \in RequestIDs(d) /\ ~d.requests[id].DeletedAt
    THEN [found |-> TRUE, order |-> d.requests[id], services |-> ServicesOf(d, id)]
    ELSE [found |-> FALSE, order |-> ZeroRequest, services |-> {}]

\* FormLogisticRequest without its check of the draft status
FormDecide_NoDraftCheck(snap, fromCity, toCity, weight, length, width, height) ==
    IF ~snap.found THEN [err |-> "not found", order |-> snap.order]
    ELSE IF fromCity = "" \/ toCity = "" \/ weight <= 0 \/ length <= 0
            \/ width <= 0 \/ height <= 0
    THEN [err |-> "required fields missing", order |-> snap.order]
    ELSE IF snap.services = {}
    THEN [err |-> "no services", order |-> snap.order]
    ELSE [err |-> "",
          order |-> [snap.order EXCEPT !.FromCity = fromCity, !.ToCity = toCity,
                                       !.Weight = weight, !.Length = length,
                                       !.Width = width, !.Height = height,
                                       !.Status = StatusFormed, !.FormedAt = TRUE,
                                       !.IsDraft = FALSE]]

\* FormLogisticRequest after the SELECT: the checks and the new row
FormDecide(snap, fromCity, toCity, weight, length, width, height) ==
    IF ~snap.found THEN [err |-> "not found", order |-> snap.order]
    ELSE IF snap.order.Status # StatusDraft
    THEN [err |-> "only drafts can be formed", order |-> snap.order]
    ELSE IF fromCity = "" \/ toCity = "" \/ weight <= 0 \/ length <= 0
            \/ width <= 0 \/ height <= 0
    THEN [err |-> "required fields missing", order |-> snap.order]
    ELSE IF snap.services = {}
    THEN [err |-> "no services", order |-> snap.order]
    ELSE [err |-> "",
          order |-> [snap.order EXCEPT !.FromCity = fromCity, !.ToCity = toCity,
                                       !.Weight = weight, !.Length = length,
                                       !.Width = width, !.Height = height,
                                       !.Status = StatusFormed, !.FormedAt = TRUE,
                                       !.IsDraft = FALSE]]

RepoFormLogisticRequest(d, id, fromCity, toCity, weight, length, width, height) ==
    LET dec == FormDecide(LoadRequest(d, id), fromCity, toCity, weight, length, width, height)
    IN  IF dec.err # "" THEN [err |-> dec.err, db |-> d]
        ELSE [err |-> "", db |-> SaveRequest(d, id, dec.order)]

\* the totals CompleteLogisticRequest computes over the preloaded line
\* items: every service quoted for the request's own route and cargo
RECURSIVE completeTotals(_, _)
completeTotals(order, services) ==
    IF services = {} THEN [totalCost |-> 0, maxDays |-> 0]
    ELSE
        LET s == CHOOSE x \in services : TRUE
            rest == completeTotals(order, services \ {s})
            res == CalculateDelivery(TransportServices[s.TransportServiceID],
                                     order.FromCity, order.ToCity,
                                     order.Length, order.Width, order.Height, order.Weight)
        IN  IF res.IsValid
            THEN [totalCost |-> rest.totalCost + res.TotalCost,
                  maxDays |-> IF res.DeliveryDays > rest.maxDays
                              THEN res.DeliveryDays ELSE rest.maxDays]
            ELSE rest

\* CompleteLogisticRequest without its check of the formed status
CompleteDecide_NoFormedCheck(snap, status, moderatorID) ==
    IF ~snap.found THEN [err |-> "not found", order |-> snap.order]
    ELSE
        LET tot == completeTotals(snap.order, snap.services)
            priced == IF status = StatusCompleted
                      THEN [snap.order EXCEPT !.TotalCost = tot.totalCost,
                                              !.TotalDays = tot.maxDays]
                      ELSE snap.order
        IN  [err |-> "",
             order |-> [priced EXCEPT !.Status = status, !.ModeratorID = moderatorID,
                                      !.CompletedAt = TRUE]]

\* CompleteLogisticRequest after the SELECT: the checks and the new row
CompleteDecide(snap, status, moderatorID) ==
    IF ~snap.found THEN [err |-> "not found", order |-> snap.order]
    ELSE IF snap.order.Status # StatusFormed
    THEN [err |-> "only formed requests can be completed", order |-> snap.order]
    ELSE
        LET tot == completeTotals(snap.order, snap.services)
            priced == IF status = StatusCompleted
                      THEN [snap.order EXCEPT !.TotalCost = tot.totalCost,
                                              !.TotalDays = tot.maxDays]
                      ELSE snap.order
        IN  [err |-> "",
             order |-> [priced EXCEPT !.Status = status, !.ModeratorID = moderatorID,
                                      !.CompletedAt = TRUE]]

RepoCompleteLogisticRequest(d, id, status, moderatorID) ==
    IF status # StatusCompleted /\ status # StatusRejected
    THEN [err |-> "wrong status", db |-> d]
    ELSE
        LET dec == CompleteDecide(LoadRequest(d, id), status, moderatorID)
        IN  IF dec.err # "" THEN [err |-> dec.err, db |-> d]
            ELSE [err |-> "", db |-> SaveRequest(d, id, dec.order)]

\* Handler.UpdateLogisticRequest after GetLogisticRequest: the draft check
\* and the fields the body overwrites (empty or non-positive ones are kept)
UpdateDecide(snap, req) ==
    IF ~snap.found THEN [err |-> "not found", order |-> snap.order]
    ELSE IF snap.order.Status # StatusDraft
    THEN [err |-> "can only update draft", order |-> snap.order]
    ELSE [err |-> "",
          order |-> [snap.order EXCEPT
                        !.FromCity = IF req.FromCity # "" THEN req.FromCity ELSE @,
                        !.ToCity = IF req.ToCity # "" THEN req.ToCity ELSE @,
                        !.Weight = IF req.Weight > 0 THEN req.Weight ELSE @,
                        !.Length = IF req.Length > 0 THEN req.Length ELSE @,
                        !.Width = IF req.Width > 0 THEN req.Width ELSE @,
                        !.Height = IF req.Height > 0 THEN req.Height ELSE @]]

\* UPDATE logistic_requests SET status = $1 WHERE id = $2 RETURNING ...
UpdateLogisticRequestStatusWithCursor(d, id, newStatus) ==
    IF id \in RequestIDs(d)
    THEN [err |-> "", db |-> SaveRequest(d, id, [d.requests[id] EXCEPT !.Status = newStatus])]
    ELSE [err |-> "not found", db |-> d]

(***************************************************************************)
(* Repository: drafts and line items.                                      *)
(***************************************************************************)
\* .First(&order): the matching row with the lowest primary key
\* a First that selects the row with the highest id
FirstID_Last(ids) == CHOOSE i \in ids : \A j \in ids : i >= j

FirstID(ids) == CHOOSE i \in ids : \A j \in ids : i <= j

\* requests GetDraftLogisticRequest / GetCartIcon select for a creator
DraftsOf(d, creatorID) ==
    {i \in RequestIDs(d) : d.requests[i].CreatorID = creatorID
                           /\ d.requests[i].Status = StatusDraft
                           /\ ~d.requests[i].DeletedAt}

\* CreateDraftLogisticRequest
CreateDraftLogisticRequest(d, creatorID) ==
    CreateRequest(d, [ZeroRequest EXCEPT !.CreatorID = creatorID,
                                         !.Status = StatusDraft, !.IsDraft = TRUE])

\* GetCartIcon: the creator's draft, created when none is found
GetCartIcon(d, creatorID) ==
    IF DraftsOf(d, creatorID) # {}
    THEN [id |-> FirstID(DraftsOf(d, creatorID)), db |-> d]
    ELSE [id |-> d.nextID, db |-> CreateDraftLogisticRequest(d, creatorID)]

\* AddServiceToLogisticRequest without "existing.Quantity++"
RepoAddServiceToLogisticRequest_NoIncrement(d, orderID, serviceID) ==
    IF ~(orderID \in RequestIDs(d) /\ d.requests[orderID].Status = StatusDraft)
    THEN [err |-> "not found or not a draft", db |-> d]
    ELSE IF GetTransportService(serviceID).err # ""
    THEN [err |-> "service not found", db |-> d]
    ELSE IF RowsOf(d, orderID, serviceID) # {}
    THEN LET existing == CHOOSE s \in RowsOf(d, orderID, serviceID) : TRUE
         IN  [err |-> "", db |-> SaveService(d, existing, existing.Quantity)]
    ELSE CreateService(d, orderID, serviceID, 1)

\* AddServiceToLogisticRequest: draft check, service check, then
\* quantity+1 on the existing row or a new row with quantity 1
RepoAddServiceToLogisticRequest(d, orderID, serviceID) ==
    IF ~(orderID \in RequestIDs(d) /\ d.requests[orderID].Status = StatusDraft)
    THEN [err |-> "not found or not a draft", db |-> d]
    ELSE IF GetTransportService(serviceID).err # ""
    THEN [err |-> "service not found", db |-> d]
    ELSE IF RowsOf(d, orderID, serviceID) # {}
    THEN LET existing == CHOOSE s \in RowsOf(d, orderID, serviceID) : TRUE
         IN  [err |-> "", db |-> SaveService(d, existing, existing.Quantity + 1)]
    ELSE CreateService(d, orderID, serviceID, 1)

\* RemoveServiceFromLogisticRequest: deletes the row it finds
RepoRemoveServiceFromLogisticRequest(d, orderID, serviceID) ==
    IF RowsOf(d, orderID, serviceID) = {}
    THEN [err |-> "service not in request", db |-> d]
    ELSE [err |-> "",
          db |-> DeleteService(d, CHOOSE s \in RowsOf(d, orderID, serviceID) : TRUE)]

\* UpdateLogisticRequestService: overwrites the quantity of the row it finds
RepoUpdateLogisticRequestService(d, orderID, serviceID, quantity) ==
    IF RowsOf(d, orderID, serviceID) = {}
    THEN [err |-> "service not in request", db |-> d]
    ELSE [err |-> "",
          db |-> SaveService(d, CHOOSE s \in RowsOf(d, orderID, serviceID) : TRUE, quantity)]

\* requests ensureGuestDraftLogisticRequest selects for a session
GuestDraftsOf(d, sessionID) ==
    {i \in RequestIDs(d) : d.requests[i].SessionID = sessionID /\ d.requests[i].IsDraft
                           /\ ~d.requests[i].DeletedAt}

\* ensureGuestDraftLogisticRequest: the session's draft, created with the
\* system creator when none is found
ensureGuestDraftLogisticRequest(d, sessionID) ==
    IF GuestDraftsOf(d, sessionID) # {}
    THEN [id |-> FirstID(GuestDraftsOf(d, sessionID)), db |-> d]
    ELSE [id |-> d.nextID,
          db |-> CreateRequest(d, [ZeroRequest EXCEPT !.SessionID = sessionID,
                                      !.IsDraft = TRUE, !.CreatorID = SystemCreator,
                                      !.Status = StatusDraft])]

\* INSERT ... VALUES ($1, $2, 1) ON CONFLICT (logistic_request_id,
\* transport_service_id) DO UPDATE SET quantity = quantity + 1
UpsertService(d, orderID, serviceID) ==
    [d EXCEPT !.services =
        {IF s.LogisticRequestID = orderID /\ s.TransportServiceID = serviceID
         THEN [s EXCEPT !.Quantity = s.Quantity + 1] ELSE s : s \in d.services}
        \cup (IF RowsOf(d, orderID, serviceID) = {}
              THEN {[LogisticRequestID |-> orderID, TransportServiceID |-> serviceID,
                     Quantity |-> 1]}
              ELSE {})]

\* AddTransportServiceToGuestDraftLogisticRequest
AddTransportServiceToGuestDraftLogisticRequest(d, serviceID) ==
    IF GetTransportService(serviceID).err # ""
    THEN [err |-> "service not found", id |-> 0, db |-> d]
    ELSE LET g == ensureGuestDraftLogisticRequest(d, "guest")
         IN  [err |-> "", id |-> g.id, db |-> UpsertService(g.db, g.id, serviceID)]

\* ClearGuestDraftLogisticRequest: deletes every line item of the guest draft
ClearGuestDraftLogisticRequest(d) ==
    LET g == ensureGuestDraftLogisticRequest(d, "guest")
    IN  [id |-> g.id,
         db |-> [g.db EXCEPT !.services = {s \in g.db.services : s.LogisticRequestID # g.id}]]

\* ClearUserDraftLogisticRequest: deletes every line item of the user's draft
RepoClearUserDraftLogisticRequest(d, creatorID) ==
    IF DraftsOf(d, creatorID) = {} THEN d
    ELSE [d EXCEPT !.services =
            {s \in d.services : s.LogisticRequestID # FirstID(DraftsOf(d, creatorID))}]

(***************************************************************************)
(* Inputs of the handlers.                                                 *)
(***************************************************************************)
Item(svc, fromCity, toCity, length, width, height, weight) ==
    [TransportServiceID |-> svc, FromCity |-> fromCity, ToCity |-> toCity,
     Length |-> length, Width |-> width, Height |-> height, Weight |-> weight]

\* two valid items, one with an unknown service, one with an invalid cargo
ItemInputs ==
    {Item(1, "msk", "spb", 1, 1, 1, 1), Item(2, "spb", "kzn", 2, 1, 1, 2),
     Item(MissingService, "msk", "spb", 1, 1, 1, 1), Item(1, "msk", "spb", 1, 1, 1, 0)}

ItemLists == UNION {[1..n -> ItemInputs] : n \in 0..MaxItems}

Cargo(fromCity, toCity, weight, length, width, height) ==
    [FromCity |-> fromCity, ToCity |-> toCity, Weight |-> weight,
     Length |-> length, Width |-> width, Height |-> height]

\* bodies of PUT /:id/form: a complete one, one without a city, one with
\* a non-positive weight
FormInputs ==
    {Cargo("spb", "msk", 2, 1, 1, 1), Cargo("", "spb", 1, 1, 1, 1),
     Cargo("msk", "spb", 0, 1, 1, 1)}

\* bodies of PUT /:id/update: a new origin, a new weight, a whole cargo
UpdateInputs ==
    {Cargo("spb", "", 0, 0, 0, 0), Cargo("", "", 2, 0, 0, 0),
     Cargo("msk", "spb", 1, 1, 1, 1)}

\* bodies of PUT /:id/status: an accepted one and one that is not
StatusInputs == {"pending", StatusDraft}

\* bodies of PUT /:id/complete
CompleteInputs == {StatusCompleted, StatusRejected, StatusFormed}

ServiceInputs == ServiceIDs \cup {MissingService}

\* the :id of a route: the requests of the database and an id it lacks
IDInputs == RequestIDs(db) \cup {db.nextID}

Response(op, id, err) == [op |-> op, id |-> id, err |-> err]

\* the sequence of logistic_requests stays within the ids of the model
WithinBounds(d) ==
    /\ d.nextID <= MaxReq + 1
    /\ \A s \in d.services : s.Quantity <= MaxQty

Procs == 1..NumProcs

\* the local variables of a handler: its arguments, the row it has read
\* and, once it has returned, its error ("" for a success)
Locals(op, id, snap, req, status, moderatorID, err) ==
    [op |-> op, id |-> id, snap |-> snap, req |-> req, status |-> status,
     moderatorID |-> moderatorID, err |-> err]

NoSnap == LoadRequest(EmptyDB, 0)
NoCargo == Cargo("", "", 0, 0, 0, 0)

Idle == [p \in Procs |-> "idle"]
NoLocal == [p \in Procs |-> Locals("", 0, NoSnap, NoCargo, "", NoModerator, "")]

(***************************************************************************)
(* Handlers, each run from its first statement to its response (Spec).     *)
(***************************************************************************)
Return(d, op, id, err) ==
    /\ WithinBounds(d)
    /\ db' = d
    /\ resp' = Response(op, id, err)
    /\ UNCHANGED <<pc, local, browser>>

\* the handler with its check of the empty list after the draft is inserted
CreateCargoLogisticRequest_CheckAfterInsert(items, user) ==
    IF Len(items) = 0
    THEN Return(CreateDraftLogisticRequest(db, user), "CreateCargoLogisticRequest", 0,
                "no transport types provided")
    ELSE LET r == RepoCreateCargoLogisticRequest(db, items, user)
         IN  Return(r.db, "CreateCargoLogisticRequest", r.id, r.err)

\* POST /api/logistic-requests
CreateCargoLogisticRequest(items, user) ==
    IF Len(items) = 0
    THEN Return(db, "CreateCargoLogisticRequest", 0, "no transport types provided")
    ELSE LET r == RepoCreateCargoLogisticRequest(db, items, user)
         IN  Return(r.db, "CreateCargoLogisticRequest", r.id, r.err)

\* GET /api/logistic-requests/user-draft/icon
GetUserDraftIcon(user) ==
    LET c == GetCartIcon(db, user)
    IN  Return(c.db, "GetUserDraftIcon", c.id, "")

\* POST /api/logistic-requests/user-draft/services/:service_id
AddTransportServiceToUserDraft(user, serviceID) ==
    LET c == GetCartIcon(db, user)
        r == RepoAddServiceToLogisticRequest(c.db, c.id, serviceID)
    IN  Return(r.db, "AddTransportServiceToUserDraft", c.id, r.err)

\* DELETE /api/logistic-requests/user-draft
ClearUserDraftLogisticRequest(user) ==
    LET c == GetCartIcon(db, user)
    IN  Return(RepoClearUserDraftLogisticRequest(c.db, user),
               "ClearUserDraftLogisticRequest", c.id, "")

\* DELETE /api/logistic-requests/:id/services/:service_id
RemoveServiceFromLogisticRequest(id, serviceID) ==
    LET r == RepoRemoveServiceFromLogisticRequest(db, id, serviceID)
    IN  Return(r.db, "RemoveServiceFromLogisticRequest", id, r.err)

\* PUT /api/logistic-requests/:id/services/:service_id (quantity >= 1)
UpdateLogisticRequestService(id, serviceID, quantity) ==
    IF quantity < 1
    THEN Return(db, "UpdateLogisticRequestService", id, "invalid request body")
    ELSE LET r == RepoUpdateLogisticRequestService(db, id, serviceID, quantity)
         IN  Return(r.db, "UpdateLogisticRequestService", id, r.err)

\* PUT /api/logistic-requests/:id/form
FormLogisticRequest(id, f) ==
    IF f.FromCity = "" \/ f.ToCity = ""
    THEN Return(db, "FormLogisticRequest", id, "from_city and to_city are required")
    ELSE IF f.Weight <= 0 \/ f.Length <= 0 \/ f.Width <= 0 \/ f.Height <= 0
    THEN Return(db, "FormLogisticRequest", id, "must be greater than 0")
    ELSE LET r == RepoFormLogisticRequest(db, id, f.FromCity, f.ToCity, f.Weight,
                                          f.Length, f.Width, f.Height)
         IN  Return(r.db, "FormLogisticRequest", id, r.err)

\* PUT /api/logistic-requests/:id/update
UpdateLogisticRequest(id, u) ==
    LET dec == UpdateDecide(LoadRequest(db, id), u)
    IN  IF dec.err # "" THEN Return(db, "UpdateLogisticRequest", id, dec.err)
        ELSE Return(SaveRequest(db, id, dec.order), "UpdateLogisticRequest", id, "")

\* PUT /api/logistic-requests/:id/complete
CompleteLogisticRequest(id, status, moderatorID) ==
    IF status # StatusCompleted /\ status # StatusRejected
    THEN Return(db, "CompleteLogisticRequest", id, "invalid status")
    ELSE LET r == RepoCompleteLogisticRequest(db, id, status, moderatorID)
         IN  Return(r.db, "CompleteLogisticRequest", id, r.err)

\* PUT /api/logistic-requests/:id/status
UpdateLogisticRequestStatus(id, status) ==
    IF status \notin validStatuses
    THEN Return(db, "UpdateLogisticRequestStatus", id, "invalid status")
    ELSE LET r == UpdateLogisticRequestStatusWithCursor(db, id, status)
         IN  Return(r.db, "UpdateLogisticRequestStatus", id, r.err)

\* POST /api/logistic-requests/draft/services/:service_id (guest)
AddTransportServiceToDraftLogisticRequest(serviceID) ==
    LET r == AddTransportServiceToGuestDraftLogisticRequest(db, serviceID)
    IN  Return(r.db, "AddTransportServiceToDraftLogisticRequest", r.id, r.err)

\* DELETE /api/logistic-requests/draft (guest)
ClearDraftLogisticRequest ==
    LET r == ClearGuestDraftLogisticRequest(db)
    IN  Return(r.db, "ClearDraftLogisticRequest", r.id, "")

\* GET /api/logistic-requests/draft (guest)
GetDraftLogisticRequest ==
    LET g == ensureGuestDraftLogisticRequest(db, "guest")
    IN  Return(g.db, "GetDraftLogisticRequest", g.id, "")

(***************************************************************************)
(* SpecCreate: the handlers that insert requests, from an empty database.  *)
(***************************************************************************)
InitCreate ==
    /\ db = EmptyDB
    /\ resp = Response("", 0, "")
    /\ pc = Idle
    /\ local = NoLocal
    /\ browser = NoBrowser

NextCreate ==
    \/ \E items \in ItemLists, user \in Buyers : CreateCargoLogisticRequest(items, user)
    \/ \E user \in Buyers : GetUserDraftIcon(user)
    \/ GetDraftLogisticRequest

SpecCreate == InitCreate /\ [][NextCreate]_vars

(***************************************************************************)
(* Spec: the life of the requests of a database after their creation.      *)
(***************************************************************************)
\* the databases one creating call leaves behind
InitialStores ==
    {RepoCreateCargoLogisticRequest(EmptyDB, items, user).db :
        items \in {l \in ItemLists : RepoCreateCargoLogisticRequest(EmptyDB, l, 2).err = ""},
        user \in Buyers}
    \cup {GetCartIcon(EmptyDB, user).db : user \in Buyers}
    \cup {ensureGuestDraftLogisticRequest(EmptyDB, "guest").db}

\* no handler of Spec inserts a request
SameRequests == db'.nextID = db.nextID

Init ==
    /\ db \in InitialStores
    /\ resp = Response("", 0, "")
    /\ pc = Idle
    /\ local = NoLocal
    /\ browser = NoBrowser

Next ==
    \/ \E user \in Buyers, svc \in ServiceInputs :
            AddTransportServiceToUserDraft(user, svc) /\ SameRequests
    \/ \E user \in Buyers : ClearUserDraftLogisticRequest(user) /\ SameRequests
    \/ \E id \in IDInputs, svc \in ServiceIDs : RemoveServiceFromLogisticRequest(id, svc)
    \/ \E id \in IDInputs, svc \in ServiceIDs, q \in 0..MaxQty :
            UpdateLogisticRequestService(id, svc, q)
    \/ \E id \in IDInputs, f \in FormInputs : FormLogisticRequest(id, f)
    \/ \E id \in IDInputs, u \in UpdateInputs : UpdateLogisticRequest(id, u)
    \/ \E id \in IDInputs, st \in CompleteInputs, m \in Moderators :
            CompleteLogisticRequest(id, st, m)
    \/ \E id \in IDInputs, st \in StatusInputs : UpdateLogisticRequestStatus(id, st)
    \/ \E svc \in ServiceInputs : AddTransportServiceToDraftLogisticRequest(svc) /\ SameRequests
    \/ ClearDraftLogisticRequest /\ SameRequests

Spec == Init /\ [][Next]_vars

(***************************************************************************)
(* Handlers of concurrent HTTP requests, one database statement per step:  *)
(* the SELECT of the row, then the checks on what was read and the Save.   *)
(***************************************************************************)
\* the handler of p answers without touching the database
Answer(p, op, id, err) ==
    /\ pc' = [pc EXCEPT ![p] = "done"]
    /\ local' = [local EXCEPT ![p] = Locals(op, id, NoSnap, NoCargo, "", NoModerator, err)]
    /\ resp' = Response(op, id, err)
    /\ UNCHANGED <<db, browser>>

\* the handler of p has read its row and goes on to its checks
Loaded(p, op, id, req, status, moderatorID) ==
    /\ pc' = [pc EXCEPT ![p] = "loaded"]
    /\ local' = [local EXCEPT ![p] =
                    Locals(op, id, LoadRequest(db, id), req, status, moderatorID, "")]
    /\ UNCHANGED <<db, resp, browser>>

\* the handler of p ends: an error leaves the database alone, a success
\* saves the row it has built from its snapshot
Finish(p, dec) ==
    /\ pc' = [pc EXCEPT ![p] = "done"]
    /\ local' = [local EXCEPT ![p].err = dec.err]
    /\ resp' = Response(local[p].op, local[p].id, dec.err)
    /\ db' = IF dec.err = "" THEN SaveRequest(db, local[p].id, dec.order) ELSE db
    /\ UNCHANGED browser

\* Handler.UpdateLogisticRequest up to and including GetLogisticRequest
UpdateLoad(p, id, u) ==
    /\ pc[p] = "idle"
    /\ Loaded(p, "UpdateLogisticRequest", id, u, "", NoModerator)

\* Handler.UpdateLogisticRequest from the draft check to the response
UpdateSave(p) ==
    /\ pc[p] = "loaded" /\ local[p].op = "UpdateLogisticRequest"
    /\ Finish(p, UpdateDecide(local[p].snap, local[p].req))

\* Handler.FormLogisticRequest and the SELECT of FormLogisticRequest
FormLoad(p, id, f) ==
    /\ pc[p] = "idle"
    /\ IF f.FromCity = "" \/ f.ToCity = ""
       THEN Answer(p, "FormLogisticRequest", id, "from_city and to_city are required")
       ELSE IF f.Weight <= 0 \/ f.Length <= 0 \/ f.Width <= 0 \/ f.Height <= 0
       THEN Answer(p, "FormLogisticRequest", id, "must be greater than 0")
       ELSE Loaded(p, "FormLogisticRequest", id, f, "", NoModerator)

\* FormLogisticRequest from the draft check to the response
FormSave(p) ==
    /\ pc[p] = "loaded" /\ local[p].op = "FormLogisticRequest"
    /\ Finish(p, FormDecide(local[p].snap, local[p].req.FromCity, local[p].req.ToCity,
                            local[p].req.Weight, local[p].req.Length,
                            local[p].req.Width, local[p].req.Height))

\* Handler.CompleteLogisticRequest and the SELECT of CompleteLogisticRequest
CompleteLoad(p, id, status, moderatorID) ==
    /\ pc[p] = "idle"
    /\ IF status # StatusCompleted /\ status # StatusRejected
       THEN Answer(p, "CompleteLogisticRequest", id, "invalid status")
       ELSE Loaded(p, "CompleteLogisticRequest", id, NoCargo, status, moderatorID)

\* CompleteLogisticRequest from the formed check to the response
CompleteSave(p) ==
    /\ pc[p] = "loaded" /\ local[p].op = "CompleteLogisticRequest"
    /\ Finish(p, CompleteDecide(local[p].snap, local[p].status, local[p].moderatorID))

\* a draft with one line item, as CreateCargoLogisticRequest leaves it
DraftStore ==
    RepoCreateCargoLogisticRequest(EmptyDB, <<Item(1, "msk", "spb", 1, 1, 1, 1)>>, 2).db

\* the same request once its creator has formed it
FormedStore == RepoFormLogisticRequest(DraftStore, 1, "msk", "spb", 1, 1, 1, 1).db

InitConc ==
    /\ db = DraftStore
    /\ resp = Response("", 0, "")
    /\ pc = Idle
    /\ local = NoLocal
    /\ browser = NoBrowser

NextConc ==
    \/ \E p \in Procs, id \in IDInputs, u \in UpdateInputs : UpdateLoad(p, id, u)
    \/ \E p \in Procs : UpdateSave(p)
    \/ \E p \in Procs, id \in IDInputs, f \in FormInputs : FormLoad(p, id, f)
    \/ \E p \in Procs : FormSave(p)
    \/ \E p \in Procs, id \in IDInputs, st \in CompleteInputs, m \in Moderators :
            CompleteLoad(p, id, st, m)
    \/ \E p \in Procs : CompleteSave(p)

SpecConc == InitConc /\ [][NextConc]_vars

InitComplete ==
    /\ db = FormedStore
    /\ resp = Response("", 0, "")
    /\ pc = Idle
    /\ local = NoLocal
    /\ browser = NoBrowser

NextComplete ==
    \/ \E p \in Procs, id \in IDInputs, st \in CompleteInputs, m \in Moderators :
            CompleteLoad(p, id, st, m)
    \/ \E p \in Procs : CompleteSave(p)

SpecComplete == InitComplete /\ [][NextComplete]_vars

(***************************************************************************)
(* Claims C1 - C5: the status of a request.                                *)
(***************************************************************************)
LifecycleSteps ==
    {<<StatusDraft, StatusFormed>>, <<StatusFormed, StatusCompleted>>,
     <<StatusFormed, StatusRejected>>}

\* C1: every change of a request's status is draft->formed, formed->completed
\* or formed->rejected; a completed or rejected request keeps its status.
C1_OnlyLifecycleTransitions ==
    [][\A id \in RequestIDs(db) :
          db'.requests[id].Status # db.requests[id].Status
          => <<db.requests[id].Status, db'.requests[id].Status>> \in LifecycleSteps]_vars

\* handlers of one kind that have returned a success for request id
Succeeded(op, id) ==
    {p \in Procs : pc[p] = "done" /\ local[p].op = op /\ local[p].id = id
                   /\ local[p].err = ""}

\* C2: once a FormLogisticRequest has succeeded the stored status is never
\* draft again, and once a CompleteLogisticRequest has succeeded it is never
\* draft or formed again, however UpdateLogisticRequest interleaves.
C2_StaleClientCannotReopen ==
    \A id \in RequestIDs(db) :
        /\ Succeeded("FormLogisticRequest", id) # {}
           => db.requests[id].Status # StatusDraft
        /\ Succeeded("CompleteLogisticRequest", id) # {}
           => db.requests[id].Status \notin {StatusDraft, StatusFormed}

\* C3: of the concurrent CompleteLogisticRequest calls on one formed request
\* at most one returns success, and the stored status and ModeratorID are
\* those of the call that succeeded.
C3_OneCompleteWins ==
    \A id \in RequestIDs(db) :
        /\ Cardinality(Succeeded("CompleteLogisticRequest", id)) <= 1
        /\ \A p \in Succeeded("CompleteLogisticRequest", id) :
              /\ db.requests[id].Status = local[p].status
              /\ db.requests[id].ModeratorID = local[p].moderatorID

\* C4: FormLogisticRequest on a request that is not a draft returns an error
\* and leaves the database as it was.
C4_FormNonDraftRejected ==
    [][\A id \in RequestIDs(db) :
          (/\ db.requests[id].Status # StatusDraft
           /\ resp'.op = "FormLogisticRequest" /\ resp'.id = id)
          => (resp'.err # "" /\ db' = db)]_vars

\* a Form of a completed request has been refused
C4_Witness ==
    /\ resp.op = "FormLogisticRequest"
    /\ resp.err = "only drafts can be formed"
    /\ resp.id \in RequestIDs(db)
    /\ db.requests[resp.id].Status = StatusCompleted
    /\ db.requests[resp.id].FormedAt

\* C5: CompleteLogisticRequest on a request that is not formed, or with a
\* target status other than completed or rejected, returns an error and
\* leaves the database as it was.
C5_CompleteNonFormedRejected ==
    [][/\ \A id \in RequestIDs(db) :
            (/\ db.requests[id].Status # StatusFormed
             /\ resp'.op = "CompleteLogisticRequest" /\ resp'.id = id)
            => (resp'.err # "" /\ db' = db)
       /\ \A id \in IDInputs, m \in Moderators,
            st \in CompleteInputs \ {StatusCompleted, StatusRejected} :
            (resp'.op = "CompleteLogisticRequest" /\ CompleteLogisticRequest(id, st, m))
            => (resp'.err # "" /\ db' = db)]_vars

\* a second Complete of a rejected request has been refused
C5_Witness ==
    /\ resp.op = "CompleteLogisticRequest"
    /\ resp.err = "only formed requests can be completed"
    /\ resp.id \in RequestIDs(db)
    /\ db.requests[resp.id].Status = StatusRejected
    /\ db.requests[resp.id].ModeratorID \in Moderators

(***************************************************************************)
(* Claims C6 - C8: CreateCargoLogisticRequest.                             *)
(***************************************************************************)
\* C6: CreateCargoLogisticRequest with an empty item list returns the "no
\* items" error and inserts no request and no line item.
C6_EmptyListCreatesNothing ==
    [][\A user \in Buyers :
          (resp'.op = "CreateCargoLogisticRequest" /\ CreateCargoLogisticRequest(<<>>, user))
          => (resp'.err = "no transport types provided" /\ db' = db)]_vars

\* an empty list has been refused on a database that holds a request
C6_Witness ==
    /\ resp.op = "CreateCargoLogisticRequest"
    /\ resp.err = "no transport types provided"
    /\ RequestIDs(db) # {}

\* the quote of one item of the list
Quote(it) ==
    CalculateDelivery(GetTransportService(it.TransportServiceID).service,
                      it.FromCity, it.ToCity, it.Length, it.Width, it.Height, it.Weight)

\* the item names a service that does not exist or has an invalid quote
BadItem(it) == it.TransportServiceID \notin ServiceIDs \/ ~Quote(it).IsValid

\* C7: a CreateCargoLogisticRequest with a bad item at any position returns
\* an error (no successful step is a call with such a list), and every
\* CreateCargoLogisticRequest that returns an error leaves the requests and
\* the line items exactly as they were.
C7_CreateAllOrNothing ==
    [][/\ \A items \in ItemLists, user \in Buyers :
            ((\E i \in 1..Len(items) : BadItem(items[i]))
             /\ resp'.op = "CreateCargoLogisticRequest"
             /\ resp'.err = "")
            => ~CreateCargoLogisticRequest(items, user)
       /\ (resp'.op = "CreateCargoLogisticRequest" /\ resp'.err # "")
            => (db'.requests = db.requests /\ db'.services = db.services)]_vars

\* a creation has failed on an item after its draft row was inserted (the
\* sequence has moved on): the database holds the request it held before
\* and none of the rows of the failed call
C7_Witness ==
    /\ resp.op = "CreateCargoLogisticRequest"
    /\ resp.err \in {"service not found", "invalid cargo"}
    /\ RequestIDs(db) = {1}
    /\ db.nextID = 3
    /\ \A s \in db.services : s.LogisticRequestID = 1

RECURSIVE SumOf(_, _)
SumOf(f, n) == IF n = 0 THEN 0 ELSE f[n] + SumOf(f, n - 1)

MaxOf(S) == CHOOSE m \in S : \A x \in S : x <= m

\* C8: after a successful CreateCargoLogisticRequest the stored request has
\* TotalCost = sum of the items' quotes, TotalDays = the largest of their
\* days, and Weight, Length, Width, Height = the sums over the items.
C8_CreateTotals ==
    [][\A items \in ItemLists, user \in Buyers :
          (/\ resp'.op = "CreateCargoLogisticRequest" /\ resp'.err = ""
           /\ CreateCargoLogisticRequest(items, user))
          => LET r == db'.requests[resp'.id]
                 n == Len(items)
             IN  /\ r.TotalCost = SumOf([i \in 1..n |-> Quote(items[i]).TotalCost], n)
                 /\ r.TotalDays = MaxOf({Quote(items[i]).DeliveryDays : i \in 1..n})
                 /\ r.Weight = SumOf([i \in 1..n |-> items[i].Weight], n)
                 /\ r.Length = SumOf([i \in 1..n |-> items[i].Length], n)
                 /\ r.Width = SumOf([i \in 1..n |-> items[i].Width], n)
                 /\ r.Height = SumOf([i \in 1..n |-> items[i].Height], n)]_vars

\* a request of two items has been created, the item with the most days first
C8_Witness ==
    /\ resp.op = "CreateCargoLogisticRequest"
    /\ resp.err = ""
    /\ resp.id \in RequestIDs(db)
    /\ Cardinality(ServicesOf(db, resp.id)) = 2
    /\ db.requests[resp.id].FromCity = "msk"
    /\ db.requests[resp.id].TotalDays = 4
    /\ db.requests[resp.id].Length = 3

(***************************************************************************)
(* Claims C9, C10: line items and totals.                                  *)
(***************************************************************************)
\* the quote of one line item: its service for the route and cargo of its request
LineQuote(d, s) ==
    LET r == d.requests[s.LogisticRequestID]
    IN  CalculateDelivery(TransportServices[s.TransportServiceID], r.FromCity, r.ToCity,
                          r.Length, r.Width, r.Height, r.Weight)

RECURSIVE SumCost(_, _)
SumCost(d, rows) ==
    IF rows = {} THEN 0
    ELSE LET s == CHOOSE x \in rows : TRUE
         IN  LineQuote(d, s).TotalCost + SumCost(d, rows \ {s})

\* the totals of request id are the aggregation over its valid line items
TotalsDerived(d, id) ==
    LET valid == {s \in ServicesOf(d, id) : LineQuote(d, s).IsValid}
    IN  /\ d.requests[id].TotalCost = SumCost(d, valid)
        /\ d.requests[id].TotalDays = MaxOf({0} \cup {LineQuote(d, s).DeliveryDays : s \in valid})

\* C9: the stored TotalCost and TotalDays of a request equal the sum and the
\* maximum over its current line items; a call that changes the line items
\* of a request whose totals are derived leaves them derived.
C9_TotalsNeverDrift ==
    [][\A id \in RequestIDs(db) :
          (TotalsDerived(db, id) /\ ServicesOf(db', id) # ServicesOf(db, id))
          => TotalsDerived(db', id)]_vars

\* C10: a successful add of a service to a draft, on the user path and on
\* the guest path, leaves exactly one line item of that service in the draft:
\* with quantity 1 when the draft had none, with the old quantity plus one
\* otherwise (so k adds to a draft without the service give quantity k).
C10_AddIsUpsert ==
    [][\A svc \in ServiceInputs :
          (/\ resp'.err = ""
           /\ \/ /\ resp'.op = "AddTransportServiceToUserDraft"
                 /\ \E user \in Buyers : AddTransportServiceToUserDraft(user, svc)
              \/ /\ resp'.op = "AddTransportServiceToDraftLogisticRequest"
                 /\ AddTransportServiceToDraftLogisticRequest(svc))
          => LET before == RowsOf(db, resp'.id, svc)
                 after == RowsOf(db', resp'.id, svc)
             IN  /\ Cardinality(before) <= 1
                 /\ Cardinality(after) = 1
                 /\ \A a \in after :
                       /\ before = {} => a.Quantity = 1
                       /\ \A b \in before : a.Quantity = b.Quantity + 1]_vars

\* an add of a service the user's draft already held has left one row of
\* that service, with quantity 2
C10_Witness ==
    /\ resp.op = "AddTransportServiceToUserDraft"
    /\ resp.err = ""
    /\ resp.id \in RequestIDs(db)
    /\ db.requests[resp.id].Status = StatusDraft
    /\ \E svc \in ServiceIDs :
          /\ Cardinality(RowsOf(db, resp.id, svc)) = 1
          /\ \A s \in RowsOf(db, resp.id, svc) : s.Quantity = 2

(***************************************************************************)
(* Line-item calls of concurrent HTTP requests, one database statement per *)
(* step: the SELECT of the line item, then the statement that writes it.   *)
(***************************************************************************)
\* the local variables of a line-item call: its target, the rows its SELECT
\* returned and, once it has returned, its error ("" for a success)
LineLocals(op, id, serviceID, existing, err) ==
    [op |-> op, id |-> id, serviceID |-> serviceID, existing |-> existing, err |-> err]

NoLineLocal == [p \in Procs |-> LineLocals("", 0, 0, {}, "")]

\* the quantity the line item of a service has in a request, 0 without a row
QuantityOf(d, id, serviceID) ==
    IF RowsOf(d, id, serviceID) = {} THEN 0
    ELSE (CHOOSE s \in RowsOf(d, id, serviceID) : TRUE).Quantity

\* db.Save(&existing) of a row read earlier: UPDATE by primary key, every
\* column taken from the copy in memory
SaveServiceRow(d, row) ==
    [d EXCEPT !.services =
        (d.services \ RowsOf(d, row.LogisticRequestID, row.TransportServiceID)) \cup {row}]

\* the call of p returns
LineDone(p, d, op, id, serviceID, err) ==
    /\ pc' = [pc EXCEPT ![p] = "done"]
    /\ local' = [local EXCEPT ![p] = LineLocals(op, id, serviceID, {}, err)]
    /\ resp' = Response(op, id, err)
    /\ db' = d
    /\ UNCHANGED browser

\* Handler.AddTransportServiceToUserDraft: GetCartIcon, then
\* AddServiceToLogisticRequest up to and including the SELECT of the row
AddLoad(p, user, serviceID) ==
    /\ pc[p] = "idle"
    /\ LET c == GetCartIcon(db, user)
       IN  IF c.db.requests[c.id].Status # StatusDraft
           THEN LineDone(p, c.db, "AddTransportServiceToUserDraft", c.id, serviceID,
                         "not found or not a draft")
           ELSE IF GetTransportService(serviceID).err # ""
           THEN LineDone(p, c.db, "AddTransportServiceToUserDraft", c.id, serviceID,
                         "service not found")
           ELSE /\ pc' = [pc EXCEPT ![p] = "loaded"]
                /\ local' = [local EXCEPT ![p] =
                                LineLocals("AddTransportServiceToUserDraft", c.id, serviceID,
                                           RowsOf(c.db, c.id, serviceID), "")]
                /\ db' = c.db
                /\ UNCHANGED <<resp, browser>>

\* AddServiceToLogisticRequest after the SELECT: existing.Quantity++ and
\* Save of the copy, or Create of a row with quantity 1
AddSave(p) ==
    /\ pc[p] = "loaded" /\ local[p].op = "AddTransportServiceToUserDraft"
    /\ IF local[p].existing # {}
       THEN LET existing == CHOOSE s \in local[p].existing : TRUE
            IN  LineDone(p, SaveServiceRow(db, [existing EXCEPT !.Quantity = existing.Quantity + 1]),
                         local[p].op, local[p].id, local[p].serviceID, "")
       ELSE LET ins == CreateService(db, local[p].id, local[p].serviceID, 1)
            IN  LineDone(p, ins.db, local[p].op, local[p].id, local[p].serviceID, ins.err)

\* Handler.AddTransportServiceToDraftLogisticRequest (guest): the draft of
\* the session, then one INSERT ... ON CONFLICT DO UPDATE statement
GuestAdd(p, serviceID) ==
    /\ pc[p] = "idle"
    /\ LET r == AddTransportServiceToGuestDraftLogisticRequest(db, serviceID)
       IN  LineDone(p, r.db, "AddTransportServiceToDraftLogisticRequest", r.id, serviceID, r.err)

\* SpecAdd: concurrent adds to the draft a creating call has left
InitAdd ==
    /\ db = DraftStore
    /\ resp = Response("", 0, "")
    /\ pc = Idle
    /\ local = NoLineLocal
    /\ browser = NoBrowser

NextAdd ==
    \/ \E p \in Procs, user \in Buyers, svc \in ServiceInputs : AddLoad(p, user, svc)
    \/ \E p \in Procs : AddSave(p)
    \/ \E p \in Procs, svc \in ServiceInputs : GuestAdd(p, svc)

SpecAdd == InitAdd /\ [][NextAdd]_vars

\* UPDATE logistic_request_services SET quantity = quantity - 1 WHERE
\* logistic_request_id = $1 AND transport_service_id = $2
DecrementService(d, orderID, serviceID) ==
    [d EXCEPT !.services =
        {IF s.LogisticRequestID = orderID /\ s.TransportServiceID = serviceID
         THEN [s EXCEPT !.Quantity = s.Quantity - 1] ELSE s : s \in d.services}]

\* DELETE FROM logistic_request_services WHERE logistic_request_id = $1 AND
\* transport_service_id = $2
DeleteServiceRows(d, orderID, serviceID) ==
    [d EXCEPT !.services = d.services \ RowsOf(d, orderID, serviceID)]

\* RemoveTransportServiceFromGuestDraftLogisticRequest up to and including
\* its SELECT quantity: no row is an error
GuestRemoveLoad(p, serviceID) ==
    /\ pc[p] = "idle"
    /\ LET g == ensureGuestDraftLogisticRequest(db, "guest")
       IN  IF RowsOf(g.db, g.id, serviceID) = {}
           THEN LineDone(p, g.db, "RemoveTransportServiceFromGuestDraftLogisticRequest",
                         g.id, serviceID, "service not in draft")
           ELSE /\ pc' = [pc EXCEPT ![p] = "loaded"]
                /\ local' = [local EXCEPT ![p] =
                                LineLocals("RemoveTransportServiceFromGuestDraftLogisticRequest",
                                           g.id, serviceID, RowsOf(g.db, g.id, serviceID), "")]
                /\ db' = g.db
                /\ UNCHANGED <<resp, browser>>

\* RemoveTransportServiceFromGuestDraftLogisticRequest after the SELECT:
\* the UPDATE when the quantity it read exceeds 1, the DELETE otherwise
GuestRemoveSave(p) ==
    /\ pc[p] = "loaded"
    /\ local[p].op = "RemoveTransportServiceFromGuestDraftLogisticRequest"
    /\ LET qty == (CHOOSE s \in local[p].existing : TRUE).Quantity
       IN  LineDone(p, IF qty > 1
                       THEN DecrementService(db, local[p].id, local[p].serviceID)
                       ELSE DeleteServiceRows(db, local[p].id, local[p].serviceID),
                    local[p].op, local[p].id, local[p].serviceID, "")

\* the guest draft after two adds of service 1
GuestStore ==
    AddTransportServiceToGuestDraftLogisticRequest(
        AddTransportServiceToGuestDraftLogisticRequest(EmptyDB, 1).db, 1).db

\* SpecGuest: concurrent adds to and removals from the guest draft
InitGuest ==
    /\ db = GuestStore
    /\ resp = Response("", 0, "")
    /\ pc = Idle
    /\ local = NoLineLocal
    /\ browser = NoBrowser

NextGuest ==
    \/ \E p \in Procs, svc \in ServiceInputs : GuestAdd(p, svc)
    \/ \E p \in Procs, svc \in ServiceInputs : GuestRemoveLoad(p, svc)
    \/ \E p \in Procs : GuestRemoveSave(p)

SpecGuest == InitGuest /\ [][NextGuest]_vars

(***************************************************************************)
(* Claims C11 - C13: line items under concurrent calls, removal.           *)
(***************************************************************************)
\* the calls that have returned a success for one (request, service) pair
DoneFor(id, serviceID) ==
    {p \in Procs : pc[p] = "done" /\ local[p].err = ""
                   /\ local[p].id = id /\ local[p].serviceID = serviceID}

\* C11: once n concurrent adds for one (request, service) pair have all
\* returned success and no add is still running, the request holds exactly
\* one line item of that service and its quantity has grown by n.
C11_NoLostUpdatesOnAdd ==
    (\A p \in Procs : pc[p] # "loaded" /\ (pc[p] = "done" => local[p].err = ""))
    => \A id \in RequestIDs(db), svc \in ServiceIDs :
          DoneFor(id, svc) # {}
          => /\ Cardinality(RowsOf(db, id, svc)) = 1
             /\ QuantityOf(db, id, svc)
                  = QuantityOf(DraftStore, id, svc) + Cardinality(DoneFor(id, svc))

\* C12: a successful removal of a service from a request whose line item
\* has quantity q > 1 leaves that line item with quantity q - 1.
C12_RemoveDecrements ==
    [][\A id \in RequestIDs(db), svc \in ServiceIDs :
          (/\ resp'.op = "RemoveServiceFromLogisticRequest"
           /\ resp'.err = ""
           /\ QuantityOf(db, id, svc) > 1
           /\ RemoveServiceFromLogisticRequest(id, svc))
          => /\ Cardinality(RowsOf(db', id, svc)) = 1
             /\ QuantityOf(db', id, svc) = QuantityOf(db, id, svc) - 1]_vars

\* the guest calls of one kind that have returned a success for a service
GuestDone(op, serviceID) ==
    {p \in Procs : pc[p] = "done" /\ local[p].err = "" /\ local[p].op = op
                   /\ local[p].serviceID = serviceID}

\* C13: no line item ever has a quantity of zero or less, and whenever no
\* guest call is between its statements the quantity of every service
\* in the guest draft is the initial quantity plus the successful adds minus
\* the successful removals, the row being absent exactly when that is zero.
C13_GuestDecrementAtomic ==
    /\ \A s \in db.services : s.Quantity > 0
    /\ (\A p \in Procs : pc[p] # "loaded")
       => \A svc \in ServiceIDs :
             LET g == FirstID(GuestDraftsOf(db, "guest"))
                 expected == QuantityOf(GuestStore, g, svc)
                             + Cardinality(GuestDone("AddTransportServiceToDraftLogisticRequest", svc))
                             - Cardinality(GuestDone("RemoveTransportServiceFromGuestDraftLogisticRequest", svc))
             IN  /\ QuantityOf(db, g, svc) = expected
                 /\ (RowsOf(db, g, svc) = {}) <=> (expected = 0)

(***************************************************************************)
(* The quote handlers.  They read transport_services and write nothing.    *)
(***************************************************************************)
\* GetTransportServiceByDeliveryType: the id the type stands for, then the
\* lookup of that id
typeMap ==
    [t \in {"fura", "malotonnazhnyi", "avia", "poezd", "korabl", "multimodal"} |->
        CASE t = "fura" -> 1
          [] t = "malotonnazhnyi" -> 2
          [] t = "avia" -> 3
          [] t = "poezd" -> 4
          [] t = "korabl" -> 5
          [] OTHER -> 6]

GetTransportServiceByDeliveryType(deliveryType) ==
    IF deliveryType \in DOMAIN typeMap
    THEN GetTransportService(typeMap[deliveryType])
    ELSE [err |-> "delivery type not found", service |-> [Price |-> 0, DeliveryDays |-> 0]]

\* int(x / y) of Go for a positive y: the quotient truncated towards zero
TruncDiv(x, y) == IF x >= 0 THEN x \div y ELSE -((-x) \div y)

\* the response of a quote handler: the error or the quote
QuoteReturn(op, err, days, cost) ==
    /\ resp' = [op |-> op, id |-> 0, err |-> err, DeliveryDays |-> days, TotalCost |-> cost]
    /\ UNCHANGED <<db, pc, local, browser>>

\* POST /api/logistic-requests/quote
CalculateLogisticRequestQuote(serviceID, c) ==
    LET svc == GetTransportService(serviceID)
        res == CalculateDelivery(svc.service, c.FromCity, c.ToCity,
                                 c.Length, c.Width, c.Height, c.Weight)
    IN  IF svc.err # ""
        THEN QuoteReturn("CalculateLogisticRequestQuote", "transport type not found", 0, 0)
        ELSE IF ~res.IsValid
        THEN QuoteReturn("CalculateLogisticRequestQuote", res.ErrorMessage, 0, 0)
        ELSE QuoteReturn("CalculateLogisticRequestQuote", "", res.DeliveryDays, res.TotalCost)

\* POST /logistic-request/quote and POST /delivery-quote: the form of the
\* quote page; a delivery type that resolves to no service leaves the zero
\* service, and the page is rendered with what the formula gives
PostDeliveryQuote(deliveryType, c) ==
    LET found == GetTransportServiceByDeliveryType(deliveryType)
        selectedService == IF deliveryType # "" /\ found.err = ""
                           THEN found.service
                           ELSE [Price |-> 0, DeliveryDays |-> 0]
    IN  QuoteReturn("PostDeliveryQuote", "",
                    selectedService.DeliveryDays + TruncDiv(c.Weight, 1000),
                    selectedService.Price + (c.Length * c.Width * c.Height * 50)
                        + (c.Weight * 2))

\* cargos sent for a quote: two valid ones and four with a dimension or a
\* weight that is not positive
QuoteInputs ==
    {Cargo("msk", "spb", 1, 1, 1, 1), Cargo("spb", "kzn", 2, 2, 1, 1),
     Cargo("msk", "spb", 0, 1, 1, 1), Cargo("msk", "spb", 1, 0, 1, 1),
     Cargo("msk", "spb", -1, 1, 1, 1), Cargo("msk", "spb", 1, 1, 1, -1)}

DeliveryTypeInputs == {"fura", "malotonnazhnyi", "avia", ""}

\* SpecQuote: quotes and creations on the databases one creating call leaves
InitQuote ==
    /\ db \in InitialStores
    /\ resp = Response("", 0, "")
    /\ pc = Idle
    /\ local = NoLocal
    /\ browser = NoBrowser

NextQuote ==
    \/ \E svc \in ServiceInputs, c \in QuoteInputs : CalculateLogisticRequestQuote(svc, c)
    \/ \E t \in DeliveryTypeInputs, c \in QuoteInputs : PostDeliveryQuote(t, c)
    \/ \E items \in ItemLists, user \in Buyers : CreateCargoLogisticRequest(items, user)

SpecQuote == InitQuote /\ [][NextQuote]_vars

(***************************************************************************)
(* Claims C14, C15: repeated and invalid creations, quotes.                *)
(***************************************************************************)
\* C14: every successful CreateCargoLogisticRequest, also one that repeats
\* the item list and creator of an earlier call, answers with an id no
\* request had before, gives that request one line item per item and
\* leaves every earlier request and its line items as they were.
C14_CreateNotIdempotent ==
    [][\A items \in ItemLists, user \in Buyers :
          (/\ resp'.op = "CreateCargoLogisticRequest"
           /\ resp'.err = ""
           /\ CreateCargoLogisticRequest(items, user))
          => /\ resp'.id \notin RequestIDs(db)
             /\ resp'.id \in RequestIDs(db')
             /\ db'.requests[resp'.id].CreatorID = user
             /\ {s.TransportServiceID : s \in ServicesOf(db', resp'.id)}
                  = {items[i].TransportServiceID : i \in 1..Len(items)}
             /\ \A i \in RequestIDs(db) :
                   /\ db'.requests[i] = db.requests[i]
                   /\ ServicesOf(db', i) = ServicesOf(db, i)]_vars

\* two creations with the same items and creator have left two requests
\* with equal columns, each with its own line items
C14_Witness ==
    /\ resp.op = "CreateCargoLogisticRequest"
    /\ resp.err = ""
    /\ resp.id = 2
    /\ RequestIDs(db) = {1, 2}
    /\ db.requests[1] = db.requests[2]
    /\ db.requests[1].TotalCost > 0
    /\ {s.TransportServiceID : s \in ServicesOf(db, 1)}
         = {s.TransportServiceID : s \in ServicesOf(db, 2)}
    /\ ServicesOf(db, 1) # {}

\* a cargo with a length, width, height or weight that is not positive
NonPositive(c) == c.Length <= 0 \/ c.Width <= 0 \/ c.Height <= 0 \/ c.Weight <= 0

\* the message of the calculator for a cargo
MessageOf(svc, c) ==
    CalculateDelivery(svc, c.FromCity, c.ToCity, c.Length, c.Width, c.Height, c.Weight).ErrorMessage

\* the first item of a list that CreateCargoLogisticRequest fails on
FirstFailing(items, i) ==
    /\ BadItem(items[i])
    /\ \A j \in 1..(i - 1) : ~BadItem(items[j])

\* C15: CalculateDelivery answers IsValid = FALSE with a non-empty message
\* for every cargo with a non-positive dimension or weight; a quote request
\* for such a cargo fails with that message, a creation whose list holds
\* such an item fails (with that message when the item is the first one to
\* fail and its service exists), and neither changes the database.
C15_NonPositiveRejected ==
    [][/\ \A svc \in ServiceIDs, c \in QuoteInputs :
             NonPositive(c)
             => LET res == CalculateDelivery(TransportServices[svc], c.FromCity, c.ToCity,
                                             c.Length, c.Width, c.Height, c.Weight)
                IN  ~res.IsValid /\ res.ErrorMessage # ""
       /\ \A c \in QuoteInputs :
             NonPositive(c)
             => /\ \A svc \in ServiceIDs :
                      (resp'.op = "CalculateLogisticRequestQuote"
                       /\ CalculateLogisticRequestQuote(svc, c))
                      => resp'.err = MessageOf(TransportServices[svc], c) /\ db' = db
                /\ \A t \in DeliveryTypeInputs :
                      (resp'.op = "PostDeliveryQuote" /\ PostDeliveryQuote(t, c))
                      => resp'.err # "" /\ db' = db
       /\ \A items \in ItemLists, user \in Buyers :
             (/\ resp'.op = "CreateCargoLogisticRequest"
              /\ \E i \in 1..Len(items) : NonPositive(items[i])
              /\ CreateCargoLogisticRequest(items, user))
             => /\ resp'.err # ""
                /\ db'.requests = db.requests
                /\ db'.services = db.services
                /\ \A i \in 1..Len(items) :
                      (/\ NonPositive(items[i])
                       /\ items[i].TransportServiceID \in ServiceIDs
                       /\ FirstFailing(items, i))
                      => resp'.err = MessageOf(TransportServices[items[i].TransportServiceID],
                                               items[i])]_vars

(***************************************************************************)
(* calculateDistance of the handlers: the distance between two cities.     *)
(* The city names are the transliterations of the names in the source.     *)
(***************************************************************************)
\* strings.TrimSpace on the spellings of the model
TrimSpace(s) ==
    CASE s = " Moskva " -> "Moskva"
      [] s = "Spb " -> "Spb"
      [] OTHER -> s

\* strings.ToLower on the spellings of the model
ToLower(s) ==
    CASE s = "Moskva" -> "moskva"
      [] s = "Spb" -> "spb"
      [] s = "KAZAN" -> "kazan"
      [] OTHER -> s

\* the rows of the map "distances", one definition per origin
fromMoskva ==
        ("sankt-peterburg" :> 635) @@ ("spb" :> 635) @@ ("ekaterinburg" :> 1416) @@
        ("novosibirsk" :> 3354) @@ ("krasnoyarsk" :> 4205) @@ ("irkutsk" :> 5152) @@
        ("vladivostok" :> 9100) @@ ("rostov-na-donu" :> 1070) @@ ("sochi" :> 1360) @@
        ("kazan" :> 820) @@ ("nizhniy novgorod" :> 420) @@ ("samara" :> 1050) @@
        ("volgograd" :> 970) @@ ("voronezh" :> 520) @@ ("saratov" :> 850) @@
        ("perm" :> 1380) @@ ("ufa" :> 1160) @@ ("chelyabinsk" :> 1510) @@
        ("omsk" :> 2550) @@ ("tyumen" :> 1720)

fromSanktPeterburg ==
        ("spb" :> 0) @@ ("moskva" :> 635) @@ ("ekaterinburg" :> 1780) @@
        ("novosibirsk" :> 3720) @@ ("kaliningrad" :> 550) @@ ("murmansk" :> 1050) @@
        ("arkhangelsk" :> 1130) @@ ("petrozavodsk" :> 320) @@
        ("velikiy novgorod" :> 180)

fromEkaterinburg ==
        ("moskva" :> 1416) @@ ("sankt-peterburg" :> 1780) @@ ("spb" :> 1780) @@
        ("novosibirsk" :> 1940) @@ ("chelyabinsk" :> 200) @@ ("perm" :> 360) @@
        ("tyumen" :> 320) @@ ("ufa" :> 520)

fromNovosibirsk ==
        ("moskva" :> 3354) @@ ("sankt-peterburg" :> 3720) @@ ("spb" :> 3720) @@
        ("ekaterinburg" :> 1940) @@ ("omsk" :> 650) @@ ("krasnoyarsk" :> 850) @@
        ("tomsk" :> 270) @@ ("barnaul" :> 230)

distances ==
    ("moskva" :> fromMoskva) @@ ("sankt-peterburg" :> fromSanktPeterburg) @@
    ("ekaterinburg" :> fromEkaterinburg) @@ ("novosibirsk" :> fromNovosibirsk)

calculateDistance(fromCity, toCity) ==
    LET from == ToLower(TrimSpace(fromCity))
        to == ToLower(TrimSpace(toCity))
    IN  IF from = to THEN 0
        ELSE IF from \in DOMAIN distances /\ to \in DOMAIN distances[from]
        THEN distances[from][to]
        ELSE 500

\* every city of the map, three spellings that need normalising and a city
\* the map does not know
CityInputs ==
    DOMAIN distances \cup UNION {DOMAIN distances[c] : c \in DOMAIN distances}
    \cup {" Moskva ", "Spb ", "KAZAN", "tula"}

\* one evaluation of calculateDistance
DistanceCall(fromCity, toCity) ==
    /\ resp' = [op |-> "calculateDistance", id |-> 0, err |-> "", fromCity |-> fromCity,
                toCity |-> toCity, distance |-> calculateDistance(fromCity, toCity)]
    /\ UNCHANGED <<db, pc, local, browser>>

InitDistance ==
    /\ db = EmptyDB
    /\ resp = Response("", 0, "")
    /\ pc = Idle
    /\ local = NoLocal
    /\ browser = NoBrowser

NextDistance == \E fromCity \in CityInputs, toCity \in CityInputs : DistanceCall(fromCity, toCity)

SpecDistance == InitDistance /\ [][NextDistance]_vars

\* C16: for every ordered pair of cities the map holds (after trimming and
\* lower-casing), the distance equals the distance of the reversed pair.
C16_DistanceSymmetric ==
    resp.op = "calculateDistance"
    => LET from == ToLower(TrimSpace(resp.fromCity))
           to == ToLower(TrimSpace(resp.toCity))
       IN  (from \in DOMAIN distances /\ to \in DOMAIN distances[from])
           => resp.distance = calculateDistance(resp.toCity, resp.fromCity)

(***************************************************************************)
(* Authentication: JWT claims, the middleware, the routes it guards.       *)
(***************************************************************************)
RoleBuyer == "buyer"
RoleManager == "manager"
RoleAdmin == "admin"

\* the users table: the uuid of a user is its id in the model
Users == Buyers \cup Moderators

RoleOf(u) == IF u \in Buyers THEN RoleBuyer ELSE IF u = 3 THEN RoleManager ELSE RoleAdmin

\* a token: its claims, and whether its signature and expiry are in order
Token(valid, type, role, uuid) ==
    [valid |-> valid, Type |-> type, Role |-> role, UserUUID |-> uuid]

\* the empty string extractToken returns
NoToken == Token(FALSE, "", "", 0)

\* the tokens the JWT service has issued to the users, and the same claims
\* with a bad signature or a passed expiry
Tokens == {Token(v, t, RoleOf(u), u) : v \in BOOLEAN, t \in {"access", "refresh"}, u \in Users}

\* the Authorization header of a request
Header(scheme, token) == [scheme |-> scheme, token |-> token]

NoHeader == Header("", NoToken)

AuthHeaders ==
    {NoHeader, Header("Basic", Token(TRUE, "access", RoleAdmin, 4))}
    \cup {Header("Bearer", t) : t \in Tokens}

\* extractToken: the token of a "Bearer <token>" header, "" otherwise
extractToken(h) == IF h.scheme # "Bearer" THEN NoToken ELSE h.token

\* JWTService.ValidateToken: the claims of a token whose signature and
\* expiry are in order
ValidateToken(t) ==
    IF t.valid THEN [err |-> "", claims |-> t]
    ELSE [err |-> "invalid token", claims |-> NoToken]

\* the gin context before any c.Set
NoContext == [user_uuid |-> 0, user_role |-> ""]

\* c.JSON(code, message) and c.Abort()
Abort(code, message) == [code |-> code, message |-> message, ctx |-> NoContext]

\* c.Set of the claims and c.Next()
Pass(claims) ==
    [code |-> 0, message |-> "",
     ctx |-> [user_uuid |-> claims.UserUUID, user_role |-> claims.Role]]

\* RequireAuth without the check of claims.Type
RequireAuth_NoTypeCheck(h) ==
    LET token == extractToken(h)
        v == ValidateToken(token)
    IN  IF token = NoToken THEN Abort(401, "Authorization token required")
        ELSE IF v.err # "" THEN Abort(401, "Invalid token")
        ELSE Pass(v.claims)

\* AuthMiddleware.RequireAuth
RequireAuth(h) ==
    LET token == extractToken(h)
        v == ValidateToken(token)
    IN  IF token = NoToken THEN Abort(401, "Authorization token required")
        ELSE IF v.err # "" THEN Abort(401, "Invalid token")
        ELSE IF v.claims.Type # "access" THEN Abort(401, "Invalid token type")
        ELSE Pass(v.claims)

\* RequireModerator without the check of claims.Role
RequireModerator_NoRoleCheck(h) ==
    LET token == extractToken(h)
        v == ValidateToken(token)
    IN  IF token = NoToken THEN Abort(401, "Authorization token required")
        ELSE IF v.err # "" THEN Abort(401, "Invalid token")
        ELSE IF v.claims.Type # "access" THEN Abort(401, "Invalid token type")
        ELSE Pass(v.claims)

\* AuthMiddleware.RequireModerator
RequireModerator(h) ==
    LET token == extractToken(h)
        v == ValidateToken(token)
    IN  IF token = NoToken THEN Abort(401, "Authorization token required")
        ELSE IF v.err # "" THEN Abort(401, "Invalid token")
        ELSE IF v.claims.Type # "access" THEN Abort(401, "Invalid token type")
        ELSE IF v.claims.Role # RoleManager /\ v.claims.Role # RoleAdmin
        THEN Abort(403, "Insufficient permissions")
        ELSE Pass(v.claims)

\* JWTService.RefreshTokenPair: a new access and a new refresh token for
\* the user of the claims
RefreshTokenPair(claims) ==
    {Token(TRUE, "access", claims.Role, claims.UserUUID),
     Token(TRUE, "refresh", claims.Role, claims.UserUUID)}

\* AuthService.RefreshTokens
RefreshTokens(refreshToken) ==
    LET v == ValidateToken(refreshToken)
    IN  IF v.err # "" THEN [err |-> "invalid refresh token", issued |-> {}]
        ELSE IF v.claims.Type # "refresh" THEN [err |-> "invalid token type", issued |-> {}]
        ELSE IF v.claims.UserUUID \notin Users THEN [err |-> "user not found", issued |-> {}]
        ELSE [err |-> "", issued |-> RefreshTokenPair(v.claims)]

\* AuthService.Logout: nothing is stored, nothing is revoked
Logout(userUUID, accessToken) == [err |-> ""]

\* the response of a guarded route: the request's header and token, the
\* status code and message, whether the handler behind the middleware ran,
\* the user context the middleware set and the tokens the call issued
AuthReturn(d, op, id, h, token, code, err, handled, ctx, issued) ==
    /\ db' = d
    /\ resp' = [op |-> op, id |-> id, err |-> err, code |-> code, header |-> h,
                token |-> token, handled |-> handled, ctx |-> ctx, issued |-> issued]
    /\ UNCHANGED <<pc, local, browser>>

\* PUT /api/logistic-requests/:id/complete behind RequireModerator
CompleteRoute(h, id, status) ==
    LET mw == RequireModerator(h)
        r == RepoCompleteLogisticRequest(db, id, status, mw.ctx.user_uuid)
    IN  IF mw.code # 0
        THEN AuthReturn(db, "CompleteLogisticRequest", id, h, extractToken(h),
                        mw.code, mw.message, FALSE, mw.ctx, {})
        ELSE IF status # StatusCompleted /\ status # StatusRejected
        THEN AuthReturn(db, "CompleteLogisticRequest", id, h, extractToken(h),
                        400, "invalid status", TRUE, mw.ctx, {})
        ELSE AuthReturn(r.db, "CompleteLogisticRequest", id, h, extractToken(h),
                        IF r.err = "" THEN 200 ELSE 400, r.err, TRUE, mw.ctx, {})

\* POST /logout behind RequireAuth
LogoutRoute(h) ==
    LET mw == RequireAuth(h)
        out == Logout(mw.ctx.user_uuid, extractToken(h))
    IN  IF mw.code # 0
        THEN AuthReturn(db, "LogoutUser", 0, h, extractToken(h),
                        mw.code, mw.message, FALSE, mw.ctx, {})
        ELSE AuthReturn(db, "LogoutUser", 0, h, extractToken(h),
                        IF out.err = "" THEN 200 ELSE 500, out.err, TRUE, mw.ctx, {})

\* GET /api/users/profile behind RequireAuth
ProfileRoute(h) ==
    LET mw == RequireAuth(h)
    IN  IF mw.code # 0
        THEN AuthReturn(db, "GetUserProfile", 0, h, extractToken(h),
                        mw.code, mw.message, FALSE, mw.ctx, {})
        ELSE IF mw.ctx.user_uuid \notin Users
        THEN AuthReturn(db, "GetUserProfile", 0, h, extractToken(h),
                        404, "user not found", TRUE, mw.ctx, {})
        ELSE AuthReturn(db, "GetUserProfile", mw.ctx.user_uuid, h, extractToken(h),
                        200, "", TRUE, mw.ctx, {})

\* POST /refresh: no middleware, the token comes in the body
RefreshRoute(refreshToken) ==
    LET r == RefreshTokens(refreshToken)
    IN  AuthReturn(db, "RefreshToken", 0, NoHeader, refreshToken,
                   IF r.err = "" THEN 200 ELSE 401, r.err, TRUE, NoContext, r.issued)

\* SpecAuth: the guarded routes on a database that holds a formed request
InitAuth ==
    /\ db = FormedStore
    /\ resp = Response("", 0, "")
    /\ pc = Idle
    /\ local = NoLocal
    /\ browser = NoBrowser

NextAuth ==
    \/ \E h \in AuthHeaders, id \in IDInputs, st \in CompleteInputs : CompleteRoute(h, id, st)
    \/ \E h \in AuthHeaders : LogoutRoute(h)
    \/ \E h \in AuthHeaders : ProfileRoute(h)
    \/ \E t \in Tokens \cup {NoToken} : RefreshRoute(t)

SpecAuth == InitAuth /\ [][NextAuth]_vars

(***************************************************************************)
(* Claims C17, C18, C20: who passes the middleware.                        *)
(***************************************************************************)
\* a header that carries a valid access token of a manager or an admin
ModeratorHeader(h) ==
    /\ h.scheme = "Bearer"
    /\ h.token.valid
    /\ h.token.Type = "access"
    /\ h.token.Role \in {RoleManager, RoleAdmin}

\* C17: the handler of PUT /:id/complete runs only for a request with a valid
\* access token whose role is manager or admin; for every other request
\* the middleware answers 401 or 403 and the database stays as it was.
C17_OnlyModeratorsComplete ==
    [][(resp'.op = "CompleteLogisticRequest" /\ ~ModeratorHeader(resp'.header))
       => /\ ~resp'.handled
          /\ resp'.code \in {401, 403}
          /\ db' = db]_vars

\* a buyer's valid access token has been turned away with 403 and the
\* formed request is still formed
C17_Witness ==
    /\ resp.op = "CompleteLogisticRequest"
    /\ resp.header.scheme = "Bearer"
    /\ resp.header.token.valid
    /\ resp.header.token.Type = "access"
    /\ resp.header.token.Role = RoleBuyer
    /\ resp.code = 403
    /\ resp.id = 1
    /\ db.requests[1].Status = StatusFormed

\* C18: once LogoutUser has answered success for an access token, a request
\* that carries the same token is turned away by RequireAuth.
C18_LogoutInvalidatesToken ==
    [][(/\ resp.op = "LogoutUser"
        /\ resp.err = ""
        /\ resp.handled
        /\ resp'.op \in {"LogoutUser", "GetUserProfile"}
        /\ resp'.header = resp.header)
       => ~resp'.handled /\ resp'.code = 401]_vars

\* C20: RequireAuth and RequireModerator answer 401 to every token whose
\* Type is not "access", RefreshTokens fails for every token whose Type is
\* not "refresh" (with "invalid token type" when signature and expiry are
\* valid); such a call sets no user context, issues no tokens and writes
\* nothing.
C20_TokenTypesNotInterchangeable ==
    [][/\ (/\ resp'.op \in {"CompleteLogisticRequest", "LogoutUser", "GetUserProfile"}
           /\ resp'.token.Type # "access")
          => /\ resp'.code = 401
             /\ ~resp'.handled
             /\ resp'.ctx = NoContext
             /\ resp'.issued = {}
             /\ db' = db
       /\ (resp'.op = "RefreshToken" /\ resp'.token.Type # "refresh")
          => /\ resp'.err # ""
             /\ resp'.token.valid => resp'.err = "invalid token type"
             /\ resp'.ctx = NoContext
             /\ resp'.issued = {}
             /\ db' = db]_vars

\* a valid refresh token has been turned away by RequireAuth with 401
C20_Witness ==
    /\ resp.op = "GetUserProfile"
    /\ resp.token.valid
    /\ resp.token.Type = "refresh"
    /\ resp.code = 401
    /\ resp.err = "Invalid token type"
    /\ resp.ctx = NoContext

(***************************************************************************)
(* Claim C19: what a request that is no longer a draft admits.             *)
(***************************************************************************)
\* the route and the cargo of a request
CargoOf(d, id) ==
    Cargo(d.requests[id].FromCity, d.requests[id].ToCity, d.requests[id].Weight,
          d.requests[id].Length, d.requests[id].Width, d.requests[id].Height)

\* the calls a creator has for changing a request
CreatorOps ==
    {"UpdateLogisticRequest", "AddTransportServiceToUserDraft",
     "RemoveServiceFromLogisticRequest", "UpdateLogisticRequestService"}

\* C19: a creator-side call leaves the route, the cargo and the line items
\* of every formed, completed or rejected request as they were, and fails
\* when such a request is its target.
C19_MutableOnlyWhileDraft ==
    [][\A id \in RequestIDs(db) :
          (/\ resp'.op \in CreatorOps
           /\ db.requests[id].Status \in {StatusFormed, StatusCompleted, StatusRejected})
          => /\ CargoOf(db', id) = CargoOf(db, id)
             /\ ServicesOf(db', id) = ServicesOf(db, id)
             /\ resp'.id = id => resp'.err # ""]_vars

(***************************************************************************)
(* SpecList: GET /api/logistic-requests behind RequireAuth, over requests  *)
(* that users draft, form, have completed or re-labelled, and delete.      *)
(***************************************************************************)
\* date_from / date_to of the query: "" when absent, "past" for a day before
\* every formed_at of the table, "future" for a day after all of them.
\* formed_at >= dateFrom: a NULL formed_at satisfies no comparison
FormedFrom(r, dateFrom) == dateFrom = "" \/ (r.FormedAt /\ dateFrom = "past")

\* formed_at <= dateTo
FormedTo(r, dateTo) == dateTo = "" \/ (r.FormedAt /\ dateTo = "future")

\* the list query without its base condition on deleted_at and status
RepoGetLogisticRequests_NoBaseFilter(d, status, dateFrom, dateTo) ==
    {i \in RequestIDs(d) :
        /\ status = "" \/ d.requests[i].Status = status
        /\ FormedFrom(d.requests[i], dateFrom)
        /\ FormedTo(d.requests[i], dateTo)}

\* Repository.GetLogisticRequests: the ids of the rows the query returns
RepoGetLogisticRequests(d, status, dateFrom, dateTo) ==
    {i \in RequestIDs(d) :
        /\ ~d.requests[i].DeletedAt /\ d.requests[i].Status # StatusDraft
        /\ status = "" \/ d.requests[i].Status = status
        /\ FormedFrom(d.requests[i], dateFrom)
        /\ FormedTo(d.requests[i], dateTo)}

\* Repository.DeleteLogisticRequest: deleted_at is set on the row, if any
RepoDeleteLogisticRequest(d, id) ==
    IF id \in RequestIDs(d) /\ ~d.requests[id].DeletedAt
    THEN SaveRequest(d, id, [d.requests[id] EXCEPT !.DeletedAt = TRUE])
    ELSE d

\* Repository.GetUserByUUID over the users table: the row whose UUID it is
GetUserByUUID(uuid) ==
    IF uuid \in Users THEN [err |-> "", ID |-> uuid] ELSE [err |-> "not found", ID |-> 0]

ListResponse(code, err, ctx, status, dateFrom, dateTo, list) ==
    [op |-> "GetLogisticRequests", id |-> 0, err |-> err, code |-> code, ctx |-> ctx,
     status |-> status, dateFrom |-> dateFrom, dateTo |-> dateTo, list |-> list]

\* Handler.GetLogisticRequests behind RequireAuth
GetLogisticRequests(h, status, dateFrom, dateTo) ==
    LET mw == RequireAuth(h)
        all == RepoGetLogisticRequests(db, status, dateFrom, dateTo)
        user == GetUserByUUID(mw.ctx.user_uuid)
    IN  /\ resp' =
            IF mw.code # 0
            THEN ListResponse(mw.code, mw.message, mw.ctx, status, dateFrom, dateTo, {})
            ELSE IF mw.ctx.user_role = RoleBuyer
            THEN IF user.err # ""
                 THEN ListResponse(500, "failed to get user", mw.ctx, status, dateFrom,
                                   dateTo, {})
                 ELSE ListResponse(200, "", mw.ctx, status, dateFrom, dateTo,
                                   {i \in all : db.requests[i].CreatorID = user.ID})
            ELSE ListResponse(200, "", mw.ctx, status, dateFrom, dateTo, all)
        /\ UNCHANGED <<db, pc, local, browser>>

\* DELETE /api/logistic-requests/:id
DeleteLogisticRequest(id) ==
    Return(RepoDeleteLogisticRequest(db, id), "DeleteLogisticRequest", id, "")

\* the Authorization headers of the callers of the list
ListHeaders ==
    {NoHeader, Header("Bearer", Token(TRUE, "refresh", RoleBuyer, 1))}
    \cup {Header("Bearer", Token(TRUE, "access", RoleOf(u), u)) : u \in Users}

\* the query strings: none, a listed status, the excluded status, either
\* date bound, a status with a date bound
ListQuery(status, dateFrom, dateTo) ==
    [status |-> status, dateFrom |-> dateFrom, dateTo |-> dateTo]

ListQueries ==
    {ListQuery("", "", ""), ListQuery(StatusFormed, "", ""), ListQuery(StatusDraft, "", ""),
     ListQuery("", "past", ""), ListQuery("", "", "past"),
     ListQuery(StatusCompleted, "past", "future")}

\* each buyer has put a service into a draft of their own
ListStore ==
    LET c1 == GetCartIcon(EmptyDB, 1)
        d1 == RepoAddServiceToLogisticRequest(c1.db, c1.id, 1).db
        c2 == GetCartIcon(d1, 2)
    IN  RepoAddServiceToLogisticRequest(c2.db, c2.id, 1).db

InitList ==
    /\ db = ListStore
    /\ resp = Response("", 0, "")
    /\ pc = Idle
    /\ local = NoLocal
    /\ browser = NoBrowser

NextList ==
    \/ \E id \in IDInputs : FormLogisticRequest(id, Cargo("spb", "msk", 2, 1, 1, 1))
    \/ \E id \in IDInputs : CompleteLogisticRequest(id, StatusCompleted, 3)
    \/ \E id \in IDInputs : UpdateLogisticRequestStatus(id, "pending")
    \/ \E id \in IDInputs : DeleteLogisticRequest(id)
    \/ \E h \in ListHeaders, q \in ListQueries :
            GetLogisticRequests(h, q.status, q.dateFrom, q.dateTo)

SpecList == InitList /\ [][NextList]_vars

\* the rows a list may show: neither drafts nor deleted ones
Listable(d) ==
    {i \in RequestIDs(d) : ~d.requests[i].DeletedAt /\ d.requests[i].Status # StatusDraft}

\* C21: a list answered to a buyer holds only requests the buyer created
\* that are neither drafts nor deleted, whatever the filters; a list
\* answered to a manager or an admin holds only listable requests and,
\* without filters, all of them.
C21_ListHidesDraftsDeletedAndOthers ==
    (resp.op = "GetLogisticRequests" /\ resp.err = "") =>
        /\ resp.list \subseteq Listable(db)
        /\ resp.ctx.user_role = RoleBuyer =>
              \A i \in resp.list : db.requests[i].CreatorID = resp.ctx.user_uuid
        /\ (resp.ctx.user_role \in {RoleManager, RoleAdmin}
            /\ resp.status = "" /\ resp.dateFrom = "" /\ resp.dateTo = "") =>
              resp.list = Listable(db)

\* a buyer is answered one request of theirs while the table also holds
\* a listable request of the other buyer, a draft or a deleted request
C21_Witness ==
    /\ resp.op = "GetLogisticRequests" /\ resp.err = ""
    /\ resp.ctx.user_role = RoleBuyer
    /\ resp.list # {}
    /\ \E i \in RequestIDs(db) : i \notin resp.list

(***************************************************************************)
(* The frontend: localStorage, the auth slice and the calls in flight      *)
(* through httpClient. A step is one run of the event loop: the code from  *)
(* the arrival of a response up to the next await on the network.          *)
(***************************************************************************)
\* what /login, /sign_up and /refresh answer with: tokens, expiry and user
AuthData ==
    [access_token |-> "access", refresh_token |-> "refresh",
     expires_at |-> "expires", user |-> "user"]

\* persistAuth, and the four writes of the interceptor after a refresh:
\* a key is set when the payload holds its field
persistAuth(ls, payload) ==
    [k \in DOMAIN ls |-> IF payload[k] # Null THEN payload[k] ELSE ls[k]]

clearPersistedAuth(ls) ==
    [ls EXCEPT !.access_token = Null, !.refresh_token = Null,
               !.expires_at = Null, !.user = Null]

\* extraReducers of authSlice
loginFulfilled(state, payload) ==
    [state EXCEPT !.isLoading = FALSE, !.isAuthenticated = TRUE,
                  !.accessToken = payload.access_token,
                  !.refreshToken = payload.refresh_token,
                  !.expiresAt = payload.expires_at, !.user = payload.user]

loginRejected(state) == [state EXCEPT !.isLoading = FALSE, !.error = "error"]

logoutPending(state) == [state EXCEPT !.isLoading = TRUE, !.error = Null]

logoutFulfilled(state) ==
    [state EXCEPT !.isLoading = FALSE, !.isAuthenticated = FALSE, !.user = Null,
                  !.accessToken = Null, !.refreshToken = Null, !.expiresAt = Null]

logoutRejected(state) ==
    [state EXCEPT !.isLoading = FALSE, !.isAuthenticated = FALSE, !.user = Null,
                  !.accessToken = Null, !.refreshToken = Null, !.expiresAt = Null]

\* restoreAuth and its fulfilled reducer: nothing without an access_token
restoreAuth(b) ==
    IF b.localStorage.access_token = Null THEN b
    ELSE [b EXCEPT !.auth.isAuthenticated = TRUE,
                   !.auth.accessToken = b.localStorage.access_token,
                   !.auth.refreshToken = b.localStorage.refresh_token,
                   !.auth.expiresAt = b.localStorage.expires_at,
                   !.auth.user = b.localStorage.user]

\* a logout whose rejected branch leaves the browser as it is
logoutUser_KeepOnReject(b, outcome) ==
    IF outcome = "fulfilled"
    THEN [localStorage |-> clearPersistedAuth(b.localStorage),
          auth |-> logoutFulfilled(b.auth)]
    ELSE [b EXCEPT !.auth.isLoading = FALSE]

\* logoutUser once authApi.logoutPost has settled: both branches of the
\* try clear localStorage, and the reducer of the outcome follows
logoutUser(b, outcome) ==
    IF outcome = "fulfilled"
    THEN [localStorage |-> clearPersistedAuth(b.localStorage),
          auth |-> logoutFulfilled(b.auth)]
    ELSE [localStorage |-> clearPersistedAuth(b.localStorage),
          auth |-> logoutRejected(b.auth)]

\* the URLs of the calls, as path segments
CallURLs == {<<"api", "logistic-requests">>, <<"logout">>, <<"refresh">>}

\* originalRequest.url.includes('/refresh')
includesRefresh(url) == \E i \in DOMAIN url : url[i] = "refresh"

\* a call through httpClient: its config (url, _retry), the thunk awaiting
\* it, the times it was sent, the POST /refresh issued for it, the status
\* of the last response and how its promise settled
CallLocals(url, thunk, retry, sends, refreshes, status, outcome) ==
    [url |-> url, thunk |-> thunk, retry |-> retry, sends |-> sends,
     refreshes |-> refreshes, status |-> status, outcome |-> outcome]

\* the calls in flight at once: a request and the one that races with it
Calls == {p \in Procs : p <= 2}

NoCall == [p \in Procs |-> CallLocals(<<>>, "", FALSE, 0, 0, 0, "")]

\* the response interceptor without its test of _retry
onRejected_NoRetryFlag(c, status, ls) ==
    IF status # 401 THEN "reject"
    ELSE IF includesRefresh(c.url) THEN "reject"
    ELSE IF ls.refresh_token = Null THEN "reject"
    ELSE "refresh"

\* the response interceptor up to its await: reject the error, or mark the
\* request and post the refresh
onRejected(c, status, ls) ==
    IF status # 401 \/ c.retry THEN "reject"
    ELSE IF includesRefresh(c.url) THEN "reject"
    ELSE IF ls.refresh_token = Null THEN "reject"
    ELSE "refresh"

\* the promise of the call of p settles; the thunk awaiting it runs on
SettleCall(p, c, outcome) ==
    /\ pc' = [pc EXCEPT ![p] = "done"]
    /\ local' = [local EXCEPT ![p] = [c EXCEPT !.outcome = outcome]]
    /\ resp' = Response(IF c.thunk # "" THEN c.thunk ELSE "httpClient", p,
                        IF outcome = "fulfilled" THEN "" ELSE "rejected")
    /\ browser' = IF c.thunk = "logoutUser" THEN logoutUser(browser, outcome) ELSE browser
    /\ UNCHANGED db

\* a component sends a request through httpClient
SendRequest(p, url) ==
    /\ pc[p] \in {"idle", "done"}
    /\ pc' = [pc EXCEPT ![p] = "sent"]
    /\ local' = [local EXCEPT ![p] = CallLocals(url, "", FALSE, 1, 0, 0, "")]
    /\ UNCHANGED <<db, resp, browser>>

\* Navbar.handleLogout, on the button shown to an authenticated user and
\* enabled while nothing loads, dispatches logoutUser: the pending reducer,
\* then authApi.logoutPost through httpClient
handleLogout(p) ==
    /\ browser.auth.isAuthenticated /\ ~browser.auth.isLoading
    /\ pc[p] \in {"idle", "done"}
    /\ pc' = [pc EXCEPT ![p] = "sent"]
    /\ local' = [local EXCEPT ![p] = CallLocals(<<"logout">>, "logoutUser", FALSE, 1, 0, 0, "")]
    /\ browser' = [browser EXCEPT !.auth = logoutPending(@)]
    /\ UNCHANGED <<db, resp>>

\* the server answers the request of p: the response interceptor
Respond(p, status) ==
    /\ pc[p] = "sent"
    /\ LET c == [local[p] EXCEPT !.status = status]
       IN  IF status = 200 THEN SettleCall(p, c, "fulfilled")
           ELSE IF onRejected(c, status, browser.localStorage) = "reject"
           THEN SettleCall(p, c, "rejected")
           ELSE /\ pc' = [pc EXCEPT ![p] = "refreshing"]
                /\ local' = [local EXCEPT ![p] =
                                [c EXCEPT !.retry = TRUE, !.refreshes = @ + 1]]
                /\ UNCHANGED <<db, resp, browser>>

\* the server answers the POST /refresh issued for p: the tokens are
\* written and the original request is sent again, or the call is rejected
RefreshRespond(p, ok) ==
    /\ pc[p] = "refreshing"
    /\ IF ok
       THEN /\ pc' = [pc EXCEPT ![p] = "sent"]
            /\ local' = [local EXCEPT ![p].sends = @ + 1]
            /\ browser' = [browser EXCEPT !.localStorage = persistAuth(@, AuthData)]
            /\ UNCHANGED <<db, resp>>
       ELSE SettleCall(p, [local[p] EXCEPT !.status = 401], "rejected")

\* loginUser with the answer of POST /login
loginUser(ok) ==
    /\ browser' = IF ok
                  THEN [localStorage |-> persistAuth(browser.localStorage, AuthData),
                        auth |-> loginFulfilled(browser.auth, AuthData)]
                  ELSE [browser EXCEPT !.auth = loginRejected(@)]
    /\ resp' = Response("loginUser", 0, IF ok THEN "" ELSE "rejected")
    /\ UNCHANGED <<db, pc, local>>

\* registerUser with the answer of POST /sign_up
registerUser(ok) ==
    /\ browser' = IF ok
                  THEN [localStorage |-> persistAuth(browser.localStorage, AuthData),
                        auth |-> loginFulfilled(browser.auth, AuthData)]
                  ELSE [browser EXCEPT !.auth = loginRejected(@)]
    /\ resp' = Response("registerUser", 0, IF ok THEN "" ELSE "rejected")
    /\ UNCHANGED <<db, pc, local>>

\* the page is loaded anew: the store starts from initialState, no call
\* is in flight, and AuthInitializer dispatches restoreAuth
AuthInitializer ==
    /\ browser' = restoreAuth([browser EXCEPT !.auth = initialState])
    /\ pc' = Idle
    /\ local' = NoCall
    /\ resp' = Response("restoreAuth", 0, "")
    /\ UNCHANGED db

InitFront ==
    /\ db = EmptyDB
    /\ resp = Response("", 0, "")
    /\ pc = Idle
    /\ local = NoCall
    /\ browser = NoBrowser

NextFront ==
    \/ \E p \in Calls, url \in CallURLs \ {<<"logout">>} : SendRequest(p, url)
    \/ \E p \in Calls : handleLogout(p)
    \/ \E p \in Calls, status \in {200, 401, 500} : Respond(p, status)
    \/ \E p \in Calls, ok \in BOOLEAN : RefreshRespond(p, ok)
    \/ \E ok \in BOOLEAN : loginUser(ok)
    \/ \E ok \in BOOLEAN : registerUser(ok)
    \/ AuthInitializer

SpecFront == InitFront /\ [][NextFront]_vars

\* C22: for every call through httpClient at most one POST /refresh is
\* issued and the request is sent at most twice; a 401 on the re-sent
\* request, on a URL containing /refresh, or with no refresh_token stored
\* rejects the call without a refresh, and a failed refresh rejects it.
C22_NoRefreshLoop ==
    [][\A p \in Calls :
          /\ local'[p].refreshes <= 1 /\ local'[p].sends <= 2
          /\ (pc[p] = "sent" /\ pc'[p] # "sent" /\ local'[p].status = 401
              /\ (local[p].retry \/ includesRefresh(local[p].url)
                  \/ browser.localStorage.refresh_token = Null))
             => (pc'[p] = "done" /\ local'[p].outcome = "rejected"
                 /\ local'[p].refreshes = local[p].refreshes)
          /\ (pc[p] = "refreshing" /\ pc'[p] = "done")
             => local'[p].outcome = "rejected"]_vars

\* a call was refreshed once, re-sent, answered 401 again and rejected
C22_Witness ==
    \E p \in Calls :
        /\ pc[p] = "done" /\ local[p].outcome = "rejected"
        /\ local[p].refreshes = 1 /\ local[p].sends = 2 /\ local[p].status = 401

\* C23: when logoutUser settles, fulfilled or rejected, the auth slice has
\* isAuthenticated false and user, accessToken, refreshToken and expiresAt
\* null, and localStorage holds none of access_token, refresh_token,
\* expires_at and user.
C23_LogoutAlwaysLogsOut ==
    [][\A p \in Calls :
          (pc[p] # "done" /\ pc'[p] = "done" /\ local'[p].thunk = "logoutUser")
          => /\ ~browser'.auth.isAuthenticated
             /\ browser'.auth.user = Null /\ browser'.auth.accessToken = Null
             /\ browser'.auth.refreshToken = Null /\ browser'.auth.expiresAt = Null
             /\ \A k \in DOMAIN browser'.localStorage : browser'.localStorage[k] = Null]_vars

\* the logout call of a logged-in user was answered 401, refreshed, sent
\* again and rejected: logoutUser has settled as rejected
C23_Witness ==
    \E p \in Calls :
        /\ pc[p] = "done" /\ local[p].thunk = "logoutUser"
        /\ local[p].outcome = "rejected" /\ local[p].refreshes = 1
        /\ resp = Response("logoutUser", p, "rejected")

\* C24: once localStorage holds neither access_token nor refresh_token,
\* only a successful login or registration writes one of them; a refresh
\* that was in flight when the logout cleared them writes nothing back.
C24_NoTokensUntilNextLogin ==
    [][(/\ browser.localStorage.access_token = Null
        /\ browser.localStorage.refresh_token = Null
        /\ \/ browser'.localStorage.access_token # Null
           \/ browser'.localStorage.refresh_token # Null)
       => (resp'.op \in {"loginUser", "registerUser"} /\ resp'.err = ""
           /\ UNCHANGED <<pc, local>>)]_vars

\* C25: for every request, IsDraft holds exactly when Status is draft,
\* FormedAt is set exactly when Status is formed, completed or rejected,
\* and CompletedAt and ModeratorID are set exactly when Status is
\* completed or rejected.
C25_FlagsFollowStatus ==
    \A i \in RequestIDs(db) :
        LET r == db.requests[i]
        IN  /\ r.IsDraft <=> r.Status = StatusDraft
            /\ r.FormedAt <=> r.Status \in {StatusFormed, StatusCompleted, StatusRejected}
            /\ r.CompletedAt <=> r.Status \in {StatusCompleted, StatusRejected}
            /\ r.ModeratorID # NoModerator <=> r.Status \in {StatusCompleted, StatusRejected}

(***************************************************************************)
(* SpecDraft: the calls that look up a user's draft and create it when     *)
(* none is found, one database statement per step, next to the creating    *)
(* transaction and to the calls that end a draft.                          *)
(***************************************************************************)
CartLocals(op, user, serviceID, draft) ==
    [op |-> op, user |-> user, serviceID |-> serviceID, draft |-> draft]

NoCartLocal == [p \in Procs |-> CartLocals("", 0, 0, 0)]

\* the calls in flight at once: a lookup and the one that races with it
DraftCalls == {p \in Procs : p <= 2}

\* the user whose calls interleave: a buyer who does not own guest drafts
DraftUsers == Buyers \ {SystemCreator}

\* GetCartIcon up to and including its SELECT of the creator's draft, in
\* GetUserDraftIcon or AddTransportServiceToUserDraft: 0 when none is found
CartLoad(p, op, user, serviceID) ==
    /\ pc[p] = "idle"
    /\ pc' = [pc EXCEPT ![p] = "loaded"]
    /\ local' = [local EXCEPT ![p] =
                    CartLocals(op, user, serviceID,
                               IF DraftsOf(db, user) # {}
                               THEN FirstID(DraftsOf(db, user)) ELSE 0)]
    /\ UNCHANGED <<db, resp, browser>>

\* GetCartIcon after its SELECT: CreateDraftLogisticRequest when no draft
\* was found; then the rest of the handler
CartFinish(p) ==
    /\ pc[p] = "loaded"
    /\ LET c == local[p]
           d1 == IF c.draft = 0 THEN CreateDraftLogisticRequest(db, c.user) ELSE db
           id == IF c.draft = 0 THEN db.nextID ELSE c.draft
           r == IF c.op = "AddTransportServiceToUserDraft"
                THEN RepoAddServiceToLogisticRequest(d1, id, c.serviceID)
                ELSE [err |-> "", db |-> d1]
       IN  /\ WithinBounds(r.db)
           /\ db' = r.db
           /\ resp' = Response(c.op, id, r.err)
    /\ pc' = [pc EXCEPT ![p] = "idle"]
    /\ local' = [local EXCEPT ![p] = NoCartLocal[p]]
    /\ UNCHANGED browser

InitDraft ==
    /\ db = EmptyDB
    /\ resp = Response("", 0, "")
    /\ pc = Idle
    /\ local = NoCartLocal
    /\ browser = NoBrowser

NextDraft ==
    \/ \E p \in DraftCalls, user \in DraftUsers : CartLoad(p, "GetUserDraftIcon", user, 0)
    \/ \E p \in DraftCalls, user \in DraftUsers :
            CartLoad(p, "AddTransportServiceToUserDraft", user, 1)
    \/ \E p \in DraftCalls : CartFinish(p)
    \/ \E user \in DraftUsers : CreateCargoLogisticRequest(<<Item(1, "msk", "spb", 1, 1, 1, 1)>>, user)
    \/ \E id \in IDInputs : FormLogisticRequest(id, Cargo("spb", "msk", 2, 1, 1, 1))

SpecDraft == InitDraft /\ [][NextDraft]_vars

C27_GuestDraftIsolated ==
    [][resp'.op \in {"AddTransportServiceToDraftLogisticRequest", "ClearDraftLogisticRequest"}
       => /\ resp'.id \in RequestIDs(db) => db.requests[resp'.id].CreatorID = SystemCreator
          /\ \A id \in RequestIDs(db) :
                db.requests[id].CreatorID # SystemCreator
                => ServicesOf(db', id) = ServicesOf(db, id)]_vars

====
